---- MODULE Spec2Model ----
(***************************************************************************)
(* Sokobot: a push-optimal A* Sokoban solver (static level model, state    *)
(* normalisation, push generator, matching heuristic, static and freeze    *)
(* deadlock detectors, search driver and move reconstruction) and the      *)
(* browser page that replays the solver's moves.                           *)
(*                                                                         *)
(* Cells are <<row, col>> pairs, 1-based (the sources count from 0; only   *)
(* differences and the row-major order of cells are ever used).  A level   *)
(* text is a sequence of rows, each a sequence of one-character strings    *)
(* (the text split at "\n").                                               *)
(***************************************************************************)
EXTENDS Integers, Sequences, FiniteSets, TLC

VARIABLES
  text,      \* the level text handed to parseLevel
  cap,       \* options: the expansion cap
  pc,        \* where the caller is: parse, parsed, search, done, error (or push)
  level,     \* the static level, once parsed
  open,      \* the frontier, in insertion order
  closed,    \* the visited set
  cameFrom,  \* the parent-link table
  explored,  \* states explored so far
  result,    \* what the call returned
  prev,      \* the result of an earlier run on the same level and cap
  here,      \* the state a walk over the push graph stands on
  calls,     \* the counts onProgress was called with during the solve
  page,      \* the Sokobot page: its globals, its controls, its requests in flight
  finder,    \* the chain finder page: its controls, its timer, its requests in flight
  chain      \* one run of the chain finder's search

\* The solver's side and the pages' side of the state.
solver == <<text, cap, pc, level, open, closed, cameFrom, explored, result, prev, here,
           calls>>
web == <<page, finder, chain>>
vars == <<text, cap, pc, level, open, closed, cameFrom, explored, result, prev, here, calls,
          page, finder, chain>>

\* ------------------------------------------------------------------ bounds
\* Interior of the boards the levels are drawn from (a wall frame is added).
BoardRows == 3
BoardCols == 4
\* The goals of a drawn level lie in the first GoalRows interior rows.
GoalRows == 1
\* Most boxes (and goals) of a drawn level.
MaxBoxes == 2
\* Most interior walls of a drawn level.
MaxWalls == 1
\* The small expansion cap drawn beside the default one.
SmallCap == 2
\* Budget shared by interior walls (1 each) and boxes (2 each) of a drawn level.
MaxClutter == 4
\* Largest budget of a layout that is also drawn spoilt.
MaxSpoilt == 2

\* onProgress is called every ProgressEvery expansions.
ProgressEvery == 2

\* The default expansion cap of the search.
DefaultCap == 1000000

\* ---------------------------------------------------------------- geometry
Null == [none |-> TRUE]

\* F applied to the value of x: a LET whose value is computed once, whatever
\* the number of places that read it.
Bind(x, F(_)) == CHOOSE r \in {F(v) : v \in {x}} : TRUE

\* Direction deltas, walk (lowercase) and push (uppercase) alike.
DELTA(m) ==
  CASE m \in {"u", "U"} -> <<-1, 0>>
    [] m \in {"d", "D"} -> <<1, 0>>
    [] m \in {"l", "L"} -> <<0, -1>>
    [] m \in {"r", "R"} -> <<0, 1>>

\* The fixed direction order of successor generation and of the flood fill.
Dirs == <<"u", "d", "l", "r">>

toUpperCase(m) ==
  CASE m \in {"u", "U"} -> "U"
    [] m \in {"d", "D"} -> "D"
    [] m \in {"l", "L"} -> "L"
    [] m \in {"r", "R"} -> "R"

Step(cell, m) == <<cell[1] + DELTA(m)[1], cell[2] + DELTA(m)[2]>>

Back(cell, m) == <<cell[1] - DELTA(m)[1], cell[2] - DELTA(m)[2]>>

\* Row-major total order on cells: smaller row first, then smaller column.
RowMajorLess(a, b) == a[1] < b[1] \/ (a[1] = b[1] /\ a[2] < b[2])

MinCell(S) == CHOOSE a \in S : \A b \in S : a = b \/ RowMajorLess(a, b)

RECURSIVE SortCells(_)
\* The cells of S as a sequence in row-major order.
SortCells(S) ==
  IF S = {} THEN <<>> ELSE <<MinCell(S)>> \o SortCells(S \ {MinCell(S)})

Abs(x) == IF x < 0 THEN -x ELSE x

\* Variant: the squared straight-line distance.
manhattan_squared(a, b) == (a[1] - b[1]) * (a[1] - b[1]) + (a[2] - b[2]) * (a[2] - b[2])

manhattan(a, b) == Abs(a[1] - b[1]) + Abs(a[2] - b[2])

SeqMax(s) == IF s = <<>> THEN 0 ELSE CHOOSE x \in {s[i] : i \in DOMAIN s} :
                                       \A i \in DOMAIN s : s[i] <= x

\* --------------------------------------------------------- the page's parser
\* parseLevel of the page: cell sets by character, the LAST player wins, no
\* validation.
CellsWith(t, chars) ==
  UNION {{<<r, c>> : c \in {k \in 1..Len(t[r]) : t[r][k] \in chars}} : r \in DOMAIN t}

MaxCell(S) == CHOOSE a \in S : \A b \in S : a = b \/ RowMajorLess(b, a)

parseLevel(t) ==
  [width  |-> SeqMax([i \in DOMAIN t |-> Len(t[i])]),
   height |-> Len(t),
   walls  |-> CellsWith(t, {"#"}),
   goals  |-> CellsWith(t, {".", "*", "+"}),
   boxes  |-> CellsWith(t, {"$", "*"}),
   player |-> IF CellsWith(t, {"@", "+"}) = {} THEN Null
              ELSE MaxCell(CellsWith(t, {"@", "+"}))]

\* ------------------------------------------------------ static level model
Range(s) == {s[i] : i \in DOMAIN s}

\* Floor: any in-bounds coordinate that is not a wall.
Floor(L, cell) ==
  /\ cell[1] \in 1..L.height
  /\ cell[2] \in 1..L.width
  /\ cell \notin L.walls

FloorCells(L) == {cell \in (1..L.height) \X (1..L.width) : cell \notin L.walls}

RECURSIVE reversePushFill_noPlayer(_, _, _)
\* Variant: the cell the player stands on is not looked at.
reversePushFill_noPlayer(L, frontier, seen) ==
  Bind(<<frontier, seen>>, LAMBDA a :
    IF a[1] = {} THEN a[2]
    ELSE Bind({Back(p[1], p[2]) :
                 p \in {q \in a[1] \X Range(Dirs) : Floor(L, Back(q[1], q[2]))}} \ a[2],
              LAMBDA new : reversePushFill_noPlayer(L, new, a[2] \cup new)))

RECURSIVE reversePushFill(_, _, _)
\* Reverse-push flood fill from the cells of `frontier`: a box at X may have been
\* pushed there in direction d from Y = X - d when Y is floor and the cell the
\* player stood on, Y - d, is floor too.
reversePushFill(L, frontier, seen) ==
  Bind(<<frontier, seen>>, LAMBDA a :
    IF a[1] = {} THEN a[2]
    ELSE Bind({Back(p[1], p[2]) :
                 p \in {q \in a[1] \X Range(Dirs) :
                          /\ Floor(L, Back(q[1], q[2]))
                          /\ Floor(L, Back(Back(q[1], q[2]), q[2]))}} \ a[2],
              LAMBDA new : reversePushFill(L, new, a[2] \cup new)))

\* Variant: every floor cell that is not a goal counts as a dead cell.
staticDeadlock_offGoal(L) == FloorCells(L) \ L.goals

\* The static (simple) deadlock cells: the floor cells that the reverse fill of
\* no goal reaches.
staticDeadlock(L) ==
  FloorCells(L) \ UNION {reversePushFill(L, {g}, {g}) : g \in L.goals}

\* The static level: the parsed cell sets and the static deadlock map.
StaticLevel(P) ==
  [height |-> P.height, width |-> P.width, walls |-> P.walls, goals |-> P.goals,
   boxes |-> P.boxes, player |-> P.player, dead |-> staticDeadlock(P)]

\* parse_level of the solver: the cell sets of the text, validated in the
\* order player, boxes, box/goal counts; the static deadlock map is computed
\* with the level.
MalformedLevel(reason) == [ok |-> FALSE, reason |-> reason]

\* Variant: the page's rule, the last player character wins and only a missing
\* player is an error.
parse_level_lastPlayer(t) ==
  LET P == parseLevel(t)
  IN IF P.player = Null THEN MalformedLevel("player")
     ELSE IF P.boxes = {} THEN MalformedLevel("empty board")
     ELSE IF Cardinality(P.boxes) # Cardinality(P.goals)
       THEN MalformedLevel("box-goal count mismatch")
     ELSE [ok |-> TRUE, level |-> StaticLevel(P)]

parse_level(t) ==
  Bind(parseLevel(t), LAMBDA P :
    IF Cardinality(CellsWith(t, {"@", "+"})) # 1 THEN MalformedLevel("player")
    ELSE IF P.boxes = {} THEN MalformedLevel("empty board")
    ELSE IF Cardinality(P.boxes) # Cardinality(P.goals)
      THEN MalformedLevel("box-goal count mismatch")
    ELSE [ok |-> TRUE, level |-> StaticLevel(P)])

\* ------------------------------------------- reachability and normalisation
RECURSIVE bfs(_, _, _, _)
\* Breadth-first flood fill of the player's region: walls and every box are
\* impassable; `parent` maps each discovered cell to the cell it was reached
\* from (the start cell to itself).
bfs(L, boxes, queue, parent) ==
  Bind(<<queue, parent, boxes>>, LAMBDA a :
    IF a[1] = <<>> THEN a[2]
    ELSE Bind(SelectSeq([i \in 1..4 |-> Step(Head(a[1]), Dirs[i])],
                        LAMBDA n : /\ Floor(L, n)
                                   /\ n \notin a[3]
                                   /\ n \notin DOMAIN a[2]),
              LAMBDA new : bfs(L, a[3], Tail(a[1]) \o new,
                               a[2] @@ [n \in Range(new) |-> Head(a[1])])))

reachable(L, player, boxes) == bfs(L, boxes, <<player>>, player :> player)

\* Variant: the path keeps its two ends only.
pathTo_ends(parent, cell) ==
  IF parent[cell] = cell THEN <<cell>>
  ELSE <<CHOOSE c \in DOMAIN parent : parent[c] = c, cell>>

RECURSIVE pathTo(_, _)
\* The BFS parent chain from the start cell to `cell`, both included.
pathTo(parent, cell) ==
  IF parent[cell] = cell THEN <<cell>>
  ELSE Append(pathTo(parent, parent[cell]), cell)

RECURSIVE floodFill(_, _, _, _)
\* The player's region as a set: the same fill without the parent chain.
floodFill(L, boxes, frontier, seen) ==
  Bind(<<frontier, seen, boxes>>, LAMBDA a :
    IF a[1] = {} THEN a[2]
    ELSE Bind({n \in {Step(x, Dirs[i]) : x \in a[1], i \in 1..4} :
                 Floor(L, n) /\ n \notin a[3] /\ n \notin a[2]},
              LAMBDA new : floodFill(L, a[3], new, a[2] \cup new)))

\* Variant: the literal player cell is kept.
normalize_literal(L, player, boxes) == player

\* The canonical representative of the player's region: its row-major minimum.
normalize(L, player, boxes) == MinCell(floodFill(L, boxes, {player}, {player}))

State(player, boxes) == [player |-> player, boxes |-> boxes]

\* ------------------------------------------------------------ push generator
PushAction(box, dir, path) == [box |-> box, dir |-> dir, path |-> path]

\* Variant: a wall on the destination cell is not looked for.
pushLegal_intoWall(L, boxes, parent, box, d) ==
  /\ Back(box, d) \in DOMAIN parent
  /\ Step(box, d) \notin boxes

\* Variant: a box on the destination cell is not looked for.
pushLegal_intoBox(L, boxes, parent, box, d) ==
  /\ Back(box, d) \in DOMAIN parent
  /\ Floor(L, Step(box, d))

\* Is pushing `box` in direction d legal, the player's region being DOMAIN parent?
pushLegal(L, boxes, parent, box, d) ==
  /\ Back(box, d) \in DOMAIN parent
  /\ Floor(L, Step(box, d))
  /\ Step(box, d) \notin boxes

\* The successors of a state, boxes in row-major order, directions in the
\* order up, down, left, right; each with its push record.
generate_pushes(L, s) ==
  Bind(<<reachable(L, s.player, s.boxes), SortCells(s.boxes)>>, LAMBDA a :
    Bind(SelectSeq([k \in 1..(4 * Len(a[2])) |->
                      [box |-> a[2][((k - 1) \div 4) + 1],
                       dir |-> Dirs[((k - 1) % 4) + 1]]],
                   LAMBDA x : pushLegal(L, s.boxes, a[1], x.box, x.dir)),
         LAMBDA legal :
           [k \in 1..Len(legal) |->
              Bind((s.boxes \ {legal[k].box}) \cup {Step(legal[k].box, legal[k].dir)},
                   LAMBDA nb :
                     [state |-> State(normalize(L, legal[k].box, nb), nb),
                      push |-> PushAction(legal[k].box, legal[k].dir,
                                          pathTo(a[1], Back(legal[k].box, legal[k].dir)))])]))

\* ---------------------------------------------------------------- heuristic
RECURSIVE SumOver(_, _)
SumOver(f, S) ==
  IF S = {} THEN 0
  ELSE LET x == CHOOSE y \in S : TRUE IN f[x] + SumOver(f, S \ {x})

SetMin(S) == CHOOSE x \in S : \A y \in S : x <= y

\* Minimum over the one-to-one assignments of boxes to goals of the summed
\* Manhattan distances (all permutations enumerated).
\* Variant: the costliest assignment of boxes to goals instead of the cheapest.
heuristic_worst(boxes, goals) ==
  LET sums == {SumOver([b \in boxes |-> manhattan(b, perm[b])], boxes) :
                 perm \in {f \in [boxes -> goals] :
                             \A a, b \in boxes : a # b => f[a] # f[b]}}
  IN CHOOSE x \in sums : \A y \in sums : y <= x

heuristic(boxes, goals) ==
  SetMin({SumOver([b \in boxes |-> manhattan(b, perm[b])], boxes) :
            perm \in {f \in [boxes -> goals] :
                        \A a, b \in boxes : a # b => f[a] # f[b]}})

\* -------------------------------------------------------- deadlock detectors
\* Variant: whatever is not marked frozen blocks.
wall_or_frozen_box_unmarked(L, frozen, cell) == cell \in L.walls \/ cell \notin frozen

wall_or_frozen_box(L, frozen, cell) == cell \in L.walls \/ cell \in frozen

h_blocked(L, frozen, B) ==
  wall_or_frozen_box(L, frozen, Step(B, "l")) /\ wall_or_frozen_box(L, frozen, Step(B, "r"))

v_blocked(L, frozen, B) ==
  wall_or_frozen_box(L, frozen, Step(B, "u")) /\ wall_or_frozen_box(L, frozen, Step(B, "d"))

\* The frozen predicate of one box against the currently marked set.
\* Variant: a box blocked along one axis already counts as frozen.
isFrozen_oneAxis(L, frozen, B) == h_blocked(L, frozen, B) \/ v_blocked(L, frozen, B)

\* Variant: a box with a wall or frozen box on any one side counts as frozen.
isFrozen_anySide(L, frozen, B) ==
  \E d \in {"u", "d", "l", "r"} : wall_or_frozen_box(L, frozen, Step(B, d))

isFrozen(L, frozen, B) == h_blocked(L, frozen, B) /\ v_blocked(L, frozen, B)

RECURSIVE freezePass(_, _, _)
\* One scan over the boxes `bs`, marking as it goes.
freezePass(L, bs, frozen) ==
  IF bs = <<>> THEN frozen
  ELSE freezePass(L, Tail(bs),
                  IF isFrozen(L, frozen, Head(bs)) /\ Head(bs) \notin frozen
                    THEN frozen \cup {Head(bs)} ELSE frozen)

RECURSIVE freezeFix(_, _, _)
\* repeat ... until not changed
freezeFix(L, boxes, frozen) ==
  Bind(<<freezePass(L, SortCells(boxes), frozen), frozen>>, LAMBDA a :
    IF a[1] = a[2] THEN a[2] ELSE freezeFix(L, boxes, a[1]))

frozenBoxes(L, boxes) == freezeFix(L, boxes, {})

\* Dynamic (freeze) deadlock: some frozen box is not on a goal.
freezeDeadlock(L, boxes) == \E B \in frozenBoxes(L, boxes) : B \notin L.goals

\* Static deadlock of a state: some box stands on a static-deadlock cell.
simpleDeadlock(L, boxes) == \E B \in boxes : B \in L.dead

\* Variant: only the freeze detector is consulted.
is_deadlock_freezeOnly(L, boxes) == freezeDeadlock(L, boxes)

is_deadlock(L, boxes) == simpleDeadlock(L, boxes) \/ freezeDeadlock(L, boxes)

\* Variant: the goal test also wants every goal covered by a box that is not
\* where the level put it.
allOnGoals_moved(L, boxes) == boxes \subseteq L.goals /\ boxes # L.boxes

allOnGoals(L, boxes) == \A B \in boxes : B \in L.goals

\* ------------------------------------------- search driver, reconstruction
Entry(s, g, h) == [state |-> s, g |-> g, h |-> h, f |-> g + h]

\* The index of the frontier entry popped next: lowest f, first inserted among
\* equal keys.
\* Variant: the frontier is a stack, the newest entry is popped.
popIndex_newest(q) == Len(q)

\* Variant: ties on f are broken oldest-first in one run, newest-first in the next.
popIndex_perRun(q) ==
  CHOOSE i \in DOMAIN q :
    \A j \in DOMAIN q :
      q[i].f < q[j].f \/ (q[i].f = q[j].f /\ IF prev = Null THEN i <= j ELSE i >= j)

popIndex(q) ==
  CHOOSE i \in DOMAIN q :
    \A j \in DOMAIN q : q[i].f < q[j].f \/ (q[i].f = q[j].f /\ i <= j)

\* Variant: the step limit is never looked at.
capExceeded_never(n, limit) == FALSE

\* Step limit: the search is over once more states than `limit` are explored.
capExceeded(n, limit) == n > limit

\* Variant: the popped entry stays in the frontier.
RemoveAt_keep(q, i) == q

RemoveAt(q, i) == SubSeq(q, 1, i - 1) \o SubSeq(q, i + 1, Len(q))

RECURSIVE reconstruct_solution(_, _)
\* The push records from the initial state to `s`, following the parent links
\* backward and reversing.
reconstruct_solution(links, s) ==
  IF s \notin DOMAIN links THEN <<>>
  ELSE Append(reconstruct_solution(links, links[s].parent), links[s].push)

\* The direction of the step between two adjacent cells.
dirOf(a, b) == CHOOSE d \in Range(Dirs) : Step(a, d) = b

\* Variant: the push step is written like a walk step.
expandPush_untagged(p) ==
  [i \in 1..(Len(p.path) - 1) |-> dirOf(p.path[i], p.path[i + 1])] \o <<p.dir>>

\* Variant: the push comes first, the walk after it.
expandPush_pushFirst(p) ==
  <<toUpperCase(p.dir)>>
    \o [i \in 1..(Len(p.path) - 1) |-> dirOf(p.path[i], p.path[i + 1])]

\* One push record expanded: its walk-path, one walk move per adjacent step,
\* then the push itself.
expandPush(p) ==
  [i \in 1..(Len(p.path) - 1) |-> dirOf(p.path[i], p.path[i + 1])]
    \o <<toUpperCase(p.dir)>>

RECURSIVE to_moves(_)
\* The flat move list: lowercase walks, uppercase pushes.
to_moves(pushes) ==
  IF pushes = <<>> THEN <<>>
  ELSE expandPush(Head(pushes)) \o to_moves(Tail(pushes))

Solved(pushes, n) ==
  [status |-> "Solved", pushCount |-> Len(pushes), statesExplored |-> n,
   moves |-> to_moves(pushes)]

Unsolved(n) == [status |-> "Unsolved", statesExplored |-> n]

\* The parent link of a state is recorded when the state is inserted into the
\* frontier for the first time, and never again.
recordLink(links, state, parent, push) ==
  IF state \in DOMAIN links THEN links
  ELSE links @@ (state :> [parent |-> parent, push |-> push])

\* Variant: the callback is due at every pop, expansion or not.
progressDue_everyPop(n, expanded) == n > 0 /\ n % ProgressEvery = 0

\* The progress callback is due once every ProgressEvery expansions.
progressDue(n, expanded) == expanded /\ n % ProgressEvery = 0

\* onProgress(statesExplored), when due: the count is handed to the caller.
onProgress(reports, n, expanded) ==
  IF progressDue(n, expanded) THEN Append(reports, n) ELSE reports

RECURSIVE insertSuccessors(_, _, _, _, _, _, _)
\* for each successor: if not in CLOSED and not a deadlock, push it onto OPEN
\* with g + 1 and record its parent link if it has none yet.  Yields the new
\* frontier and parent-link table.
insertSuccessors(L, succs, visited, parent, g, q, links) ==
  Bind(<<succs, visited, parent, g, q, links>>, LAMBDA a :
    IF a[1] = <<>> THEN [open |-> a[5], cameFrom |-> a[6]]
    ELSE Bind(<<Head(a[1]),
                Head(a[1]).state \notin a[2] /\ ~is_deadlock(L, Head(a[1]).state.boxes)>>,
              LAMBDA x :
                insertSuccessors(L, Tail(a[1]), a[2], a[3], a[4],
                  IF x[2] THEN Append(a[5], Entry(x[1].state, a[4] + 1,
                                                  heuristic(x[1].state.boxes, L.goals)))
                          ELSE a[5],
                  IF x[2] THEN recordLink(a[6], x[1].state, a[3], x[1].push)
                          ELSE a[6])))

\* --------------------------------------------------------------- the levels
Interior == (2..(BoardRows + 1)) \X (2..(BoardCols + 1))

GoalCells == {x \in Interior : x[1] <= GoalRows + 1}

SubsetsUpTo(S, n) == {X \in SUBSET S : Cardinality(X) <= n}

\* One character per cell: wall, floor, box, player, goal, box on goal, player
\* on goal.
cellChar(walls, goals, boxes, players, cell) ==
  IF cell \notin Interior \/ cell \in walls THEN "#"
  ELSE IF cell \in boxes THEN (IF cell \in goals THEN "*" ELSE "$")
  ELSE IF cell \in players THEN (IF cell \in goals THEN "+" ELSE "@")
  ELSE IF cell \in goals THEN "." ELSE " "

LevelText(walls, goals, boxes, players) ==
  [r \in 1..(BoardRows + 2) |->
     [c \in 1..(BoardCols + 2) |-> cellChar(walls, goals, boxes, players, <<r, c>>)]]

Layout(w, g, b, ps) == [walls |-> w, goals |-> g, boxes |-> b, players |-> ps]

\* The ways a layout is spoilt before it is written out as text.
Defects == {"none", "no player", "two players", "no box", "goal missing", "goal added"}

Spoil(l, k) ==
  LET free == ((Interior \ l.walls) \ l.boxes) \ l.players
      nogoal == (Interior \ l.walls) \ l.goals
  IN CASE k = "none" -> l
       [] k = "no player" -> [l EXCEPT !.players = {}]
       [] k = "two players" ->
            IF free = {} THEN l ELSE [l EXCEPT !.players = @ \cup {MinCell(free)}]
       [] k = "no box" -> [l EXCEPT !.boxes = {}]
       [] k = "goal missing" -> [l EXCEPT !.goals = @ \ {MinCell(@)}]
       [] k = "goal added" ->
            IF nogoal = {} THEN l ELSE [l EXCEPT !.goals = @ \cup {MinCell(nogoal)}]

\* Walls and boxes share one budget; only the plainest layouts are spoilt.
Clutter(w, b) == Cardinality(w) + 2 * Cardinality(b)

RECURSIVE Spread(_, _, _)
Spread(free, frontier, seen) ==
  IF frontier = {} THEN seen
  ELSE LET new == {n \in free \ seen : \E x \in frontier : manhattan(x, n) = 1}
       IN Spread(free, new, seen \cup new)

\* The interior cells joined to p by steps over cells free of walls and boxes.
RegionOf(w, b, p) == Spread(Interior \ (w \cup b), {p}, {p})

\* The walls that close the first interior cell into a pocket.
PocketWalls == {<<2, 3>>, <<3, 2>>}

\* The layouts drawn: walls (within the budget, or the pocket), then boxes,
\* goals in the goal rows (as many as boxes when `exact`, else at least as
\* many), one player on a cell free of walls and boxes: the first or the last
\* cell (row-major) of each region that the walls and boxes leave.
DrawLayout(Use(_), exact) ==
  \E w \in SubsetsUpTo(Interior, MaxWalls) \cup {PocketWalls} :
    \E b \in SubsetsUpTo(Interior \ w, MaxBoxes) :
      /\ b # {}
      /\ Clutter(w, b) <= MaxClutter \/ (w = PocketWalls /\ Cardinality(b) = MaxBoxes)
      /\ \E g \in SubsetsUpTo(GoalCells \ w, MaxBoxes) :
           /\ Cardinality(g) >= Cardinality(b)
           /\ exact => Cardinality(g) = Cardinality(b)
           /\ \E p \in (Interior \ w) \ b :
                /\ p \in {MinCell(RegionOf(w, b, p)), MaxCell(RegionOf(w, b, p))}
                /\ Use(Layout(w, g, b, {p}))

\* The level texts drawn: a layout written out as text, spoilt or not.
DrawText(t) ==
  DrawLayout(LAMBDA x :
               \E k \in Defects :
                 /\ k = "none" \/ Clutter(x.walls, x.boxes) <= MaxSpoilt
                 /\ LET l == Spoil(x, k)
                    IN t = LevelText(l.walls, l.goals, l.boxes, l.players),
             TRUE)

\* A level beyond the family: five rows of five cells inside the frame, two
\* boxes, one of them on its goal; six pushes solve it.
DetourLevel ==
  << <<"#", "#", "#", "#", "#", "#", "#">>,
     <<"#", " ", " ", " ", "@", " ", "#">>,
     <<"#", " ", " ", "$", " ", "#", "#">>,
     <<"#", "#", "#", " ", " ", " ", "#">>,
     <<"#", " ", " ", " ", " ", " ", "#">>,
     <<"#", " ", ".", " ", "*", " ", "#">>,
     <<"#", "#", "#", "#", "#", "#", "#">> >>

Caps == {SmallCap, DefaultCap}

\* ------------------------------------------------------------------ actions
\* No page is open while the solver is exercised on its own.
WebIdle ==
  /\ page = Null
  /\ finder = Null
  /\ chain = Null

Init ==
  /\ DrawText(text) \/ text = DetourLevel
  /\ cap \in Caps
  /\ pc = "parse"
  /\ level = Null
  /\ open = <<>>
  /\ closed = {}
  /\ cameFrom = <<>>
  /\ explored = 0
  /\ result = Null
  /\ prev = Null
  /\ calls = <<>>
  /\ here = Null
  /\ WebIdle

\* parseLevel(text): the static level, or MalformedLevel before any search.
ParseLevel ==
  /\ pc = "parse"
  /\ \E r \in {parse_level(text)} :
        IF r.ok
          THEN /\ level' = r.level
               /\ pc' = "parsed"
               /\ result' = result
          ELSE /\ level' = level
               /\ pc' = "error"
               /\ result' = r
  /\ UNCHANGED <<text, cap, open, closed, cameFrom, explored, prev, here, calls,
               page, finder, chain>>

\* solve(level, options): the initial state goes onto OPEN with g = 0.
SolveBegin ==
  /\ pc = "parsed"
  /\ open' = <<Entry(State(normalize(level, level.player, level.boxes), level.boxes),
                     0, heuristic(level.boxes, level.goals))>>
  /\ pc' = "search"
  /\ UNCHANGED <<text, cap, level, closed, cameFrom, explored, result, prev, here, calls,
               page, finder, chain>>

\* One iteration of the search loop.
SolveStep ==
  /\ pc = "search"
  /\ IF open = <<>>
       THEN /\ result' = Unsolved(explored)
            /\ pc' = "done"
            /\ UNCHANGED <<open, closed, cameFrom, explored, calls>>
       ELSE \E i \in {popIndex(open)} : \E e \in {open[i]} : \E rest \in {RemoveAt(open, i)} :
               IF allOnGoals(level, e.state.boxes)
                 THEN /\ result' = Solved(reconstruct_solution(cameFrom, e.state), explored)
                      /\ pc' = "done"
                      /\ open' = rest
                      /\ UNCHANGED <<closed, cameFrom, explored, calls>>
               ELSE IF e.state \in closed
                 THEN /\ open' = rest
                      /\ calls' = onProgress(calls, explored, FALSE)
                      /\ UNCHANGED <<closed, cameFrom, explored, result, pc>>
               ELSE IF capExceeded(explored + 1, cap)
                 THEN /\ result' = Unsolved(explored + 1)
                      /\ pc' = "done"
                      /\ explored' = explored + 1
                      /\ open' = rest
                      /\ closed' = closed \cup {e.state}
                      /\ calls' = onProgress(calls, explored + 1, TRUE)
                      /\ UNCHANGED cameFrom
               ELSE \E ins \in {insertSuccessors(level, generate_pushes(level, e.state),
                                                closed \cup {e.state}, e.state, e.g,
                                                rest, cameFrom)} :
                       /\ closed' = closed \cup {e.state}
                       /\ explored' = explored + 1
                       /\ open' = ins.open
                       /\ cameFrom' = ins.cameFrom
                       /\ calls' = onProgress(calls, explored + 1, TRUE)
                       /\ UNCHANGED <<result, pc>>
  /\ UNCHANGED <<text, cap, level, prev, here,
               page, finder, chain>>

Next == ParseLevel \/ SolveBegin \/ SolveStep

Spec == Init /\ [][Next]_vars

\* A second run of solve on the same level with the same cap: the first
\* result is kept for comparison and the search starts afresh.
SolveAgain ==
  /\ pc = "done"
  /\ prev = Null
  /\ prev' = result
  /\ calls' = <<>>
  /\ pc' = "parsed"
  /\ open' = <<>>
  /\ closed' = {}
  /\ cameFrom' = <<>>
  /\ explored' = 0
  /\ result' = Null
  /\ UNCHANGED <<text, cap, level, here,
               page, finder, chain>>

TwoRuns == Init /\ [][Next \/ SolveAgain]_vars

\* The search run to completion: the loop keeps iterating while it can.
FairSpec == Spec /\ WF_vars(Next)

\* ------------------------------------------------- a walk over the push graph
\* Any layout (a lone box among two goals included) as a search state, and
\* from there any legal push, nothing pruned.
PushInit ==
  /\ DrawLayout(LAMBDA x : text = LevelText(x.walls, x.goals, x.boxes, x.players),
                FALSE)
  /\ cap = DefaultCap
  /\ pc = "place"
  /\ level = Null
  /\ here = Null
  /\ open = <<>>
  /\ closed = {}
  /\ cameFrom = <<>>
  /\ explored = 0
  /\ result = Null
  /\ prev = Null
  /\ calls = <<>>
  /\ WebIdle

\* The static level of the text and its initial search state.
Place ==
  /\ pc = "place"
  /\ LET L == StaticLevel(parseLevel(text))
     IN /\ level' = L
        /\ here' = State(normalize(L, L.player, L.boxes), L.boxes)
  /\ pc' = "push"
  /\ UNCHANGED <<text, cap, open, closed, cameFrom, explored, result, prev, calls,
               page, finder, chain>>

\* One legal push, whichever.
Push ==
  /\ pc = "push"
  /\ LET succs == generate_pushes(level, here)
     IN \E k \in DOMAIN succs : here' = succs[k].state
  /\ UNCHANGED <<text, cap, pc, level, open, closed, cameFrom, explored, result, prev, calls,
               page, finder, chain>>

PushSpec == PushInit /\ [][Place \/ Push]_vars

\* ------------------------------------------------- exhaustive push search
\* The reference the solver is compared with: plain breadth-first search over
\* pushes from literal player positions, with no normalisation, no heuristic
\* and no pruning.
RECURSIVE walkFill(_, _, _, _)
walkFill(L, boxes, frontier, seen) ==
  IF frontier = {} THEN seen
  ELSE LET new == {n \in {Step(x, Dirs[i]) : x \in frontier, i \in 1..4} :
                     Floor(L, n) /\ n \notin boxes /\ n \notin seen}
       IN walkFill(L, boxes, new, seen \cup new)

legalPushes(L, s) ==
  LET region == walkFill(L, s.boxes, {s.player}, {s.player})
  IN {State(x[1], (s.boxes \ {x[1]}) \cup {Step(x[1], x[2])}) :
        x \in {y \in s.boxes \X Range(Dirs) :
                 /\ Back(y[1], y[2]) \in region
                 /\ Floor(L, Step(y[1], y[2]))
                 /\ Step(y[1], y[2]) \notin s.boxes}}

NoSolution == 0 - 1

RECURSIVE minPushes(_, _, _, _)
\* The least number of pushes from a state of `frontier` (all `depth` pushes
\* from the start) to a state with every box on a goal; NoSolution if none.
minPushes(L, frontier, seen, depth) ==
  IF \E s \in frontier : allOnGoals(L, s.boxes) THEN depth
  ELSE IF frontier = {} THEN NoSolution
  ELSE LET new == UNION {legalPushes(L, s) : s \in frontier} \ seen
       IN minPushes(L, new, seen \cup new, depth + 1)

bruteForce(L, player, boxes) ==
  minPushes(L, {State(player, boxes)}, {State(player, boxes)}, 0)

\* C1: for every solvable level, with the cap not hit, solve returns Solved and
\* pushCount is the minimum number of pushes of the exhaustive search.
PushOptimal ==
  (pc = "done" /\ cap = DefaultCap) =>
    LET best == bruteForce(level, level.player, level.boxes)
    IN best # NoSolution => (result.status = "Solved" /\ result.pushCount = best)

\* ------------------------------------------------------- the page's replay
isPush(move) == move = toUpperCase(move)

\* applyMove of the page: shift the player; an uppercase move also shifts the
\* box on the player's new cell one step further.
applyMove(state, move) ==
  IF state.player = Null THEN state
  ELSE LET newPlayerKey == Step(state.player, move)
           boxTarget == Step(newPlayerKey, move)
       IN [state EXCEPT !.player = newPlayerKey,
                        !.boxes = IF isPush(move)
                                    THEN (@ \ {newPlayerKey}) \cup {boxTarget}
                                    ELSE @]

RECURSIVE goToStep(_, _, _)
\* The board after the first n moves, rebuilt from the level text.
goToStep(t, moves, n) ==
  IF n = 0 THEN parseLevel(t)
  ELSE applyMove(goToStep(t, moves, n - 1), moves[n])

\* Is the n-th move legal on the board it is applied to?
moveLegal(board, move) ==
  LET to == Step(board.player, move)
  IN /\ to \notin board.walls
     /\ IF isPush(move)
          THEN /\ to \in board.boxes
               /\ Step(to, move) \notin board.walls
               /\ Step(to, move) \notin board.boxes
          ELSE to \notin board.boxes

\* C2: replaying the moves of a Solved result from the parsed level never
\* walks into a wall or a box, pushes only a box that is in front of the
\* player and only onto a free cell, and ends with every box on a goal.
ReplayValid ==
  (pc = "done" /\ result.status = "Solved") =>
    /\ \A n \in 1..Len(result.moves) :
         moveLegal(goToStep(text, result.moves, n - 1), result.moves[n])
    /\ LET last == goToStep(text, result.moves, Len(result.moves))
       IN last.boxes \subseteq last.goals

\* Witness of C1: a level solved with the default cap in three pushes or more.
PushOptimalWitness ==
  /\ pc = "done"
  /\ cap = DefaultCap
  /\ result.status = "Solved"
  /\ result.pushCount >= 3
  /\ result.pushCount = bruteForce(level, level.player, level.boxes)

\* The true remaining cost of the state the walk stands on.
trueCost == bruteForce(level, here.player, here.boxes)

\* C3: a state flagged by the static or by the freeze detector has no sequence
\* of legal pushes to a state with all boxes on goals.
PruningSafe ==
  (pc = "push" /\ is_deadlock(level, here.boxes)) => trueCost = NoSolution

\* Witness of C3: a successor flagged by a detector, reached by a push from an
\* initial state that neither detector flags.
PruningSafeWitness ==
  /\ pc = "push"
  /\ ~is_deadlock(level, level.boxes)
  /\ here.boxes # level.boxes
  /\ is_deadlock(level, here.boxes)
  /\ trueCost = NoSolution

\* C4: a lone box on a cell flagged by staticDeadlock can never be brought
\* onto a goal, wherever the player stands.
StaticDeadlockSafe ==
  (pc = "push" /\ Cardinality(here.boxes) = 1 /\ here.boxes \subseteq level.dead)
    => trueCost = NoSolution

\* Witness of C4: a lone box on a flagged cell that still has a legal push.
StaticDeadlockWitness ==
  /\ pc = "push"
  /\ Cardinality(here.boxes) = 1
  /\ here.boxes \subseteq level.dead
  /\ generate_pushes(level, here) # <<>>
  /\ trueCost = NoSolution

\* No push of box B is legal, wherever the player stands: in every direction
\* the cell beyond is a wall or a box, or the cell behind is.
blockedCell(L, boxes, cell) == cell \in L.walls \/ cell \in boxes

noLegalPush(L, boxes, B) ==
  \A d \in Range(Dirs) :
    blockedCell(L, boxes, Step(B, d)) \/ blockedCell(L, boxes, Back(B, d))

\* Two boxes side by side, off goals, both against a wall on the same side,
\* neither with a legal push.
wedgedPair(L, boxes, A, B) ==
  /\ A \notin L.goals /\ B \notin L.goals
  /\ \E d \in Range(Dirs) :
       /\ B = Step(A, d)
       /\ \E side \in Range(Dirs) :
            /\ DELTA(side)[1] * DELTA(d)[1] + DELTA(side)[2] * DELTA(d)[2] = 0
            /\ Step(A, side) \in L.walls
            /\ Step(B, side) \in L.walls
  /\ noLegalPush(L, boxes, A)
  /\ noLegalPush(L, boxes, B)

\* C5: a state with two boxes wedged side by side against a wall, off goals,
\* neither with a legal push, is reported by the freeze detector.
WedgedPairFlagged ==
  pc = "push" =>
    \A A, B \in here.boxes :
      wedgedPair(level, here.boxes, A, B) => freezeDeadlock(level, here.boxes)

\* The sides on which a cell touches a wall.
wallSides(L, B) == {d \in Range(Dirs) : Step(B, d) \in L.walls}

\* C6: a state with a single box that touches a wall on one side only is not
\* reported by the freeze detector.
LoneBoxNotFlagged ==
  (pc = "push" /\ Cardinality(here.boxes) = 1
     /\ \A B \in here.boxes : Cardinality(wallSides(level, B)) = 1)
    => ~freezeDeadlock(level, here.boxes)

\* Witness of C6: such a box, off its goal, reached by a push.
LoneBoxWitness ==
  /\ pc = "push"
  /\ Cardinality(here.boxes) = 1
  /\ here.boxes # level.boxes
  /\ \A B \in here.boxes : Cardinality(wallSides(level, B)) = 1 /\ B \notin level.goals
  /\ ~freezeDeadlock(level, here.boxes)

\* C7: on every state reachable by legal pushes from the initial state of a
\* level, h is at most the true minimum number of pushes to a goal state.
HeuristicAdmissible ==
  (pc = "push" /\ Cardinality(level.boxes) = Cardinality(level.goals)
     /\ trueCost # NoSolution)
    => heuristic(here.boxes, level.goals) <= trueCost

\* Witness of C7: a pushed-to state, still solvable, where h is positive and
\* strictly below the true cost.
HeuristicWitness ==
  /\ pc = "push"
  /\ Cardinality(level.boxes) = Cardinality(level.goals)
  /\ here.boxes # level.boxes
  /\ trueCost # NoSolution
  /\ heuristic(here.boxes, level.goals) >= 1
  /\ heuristic(here.boxes, level.goals) < trueCost

playerCount(t) == Cardinality(CellsWith(t, {"@", "+"}))

boxCount(t) == Cardinality(CellsWith(t, {"$", "*"}))

goalCount(t) == Cardinality(CellsWith(t, {".", "+", "*"}))

malformed(t) == playerCount(t) # 1 \/ boxCount(t) = 0 \/ boxCount(t) # goalCount(t)

\* C9: a text without exactly one player, without a box, or with a box count
\* different from its goal count is rejected as MalformedLevel; with two
\* players the reason names the player; and nothing of the search exists when
\* the failure is reported.
ParseRejects ==
  (pc \in {"parsed", "error", "search", "done"} /\ malformed(text)) =>
    /\ pc = "error"
    /\ result.ok = FALSE
    /\ playerCount(text) = 2 => result.reason = "player"
    /\ level = Null /\ open = <<>> /\ closed = {} /\ cameFrom = <<>> /\ explored = 0

\* Witness of C9: a text with two players, rejected.
ParseRejectsWitness ==
  /\ pc = "error"
  /\ playerCount(text) = 2
  /\ result = MalformedLevel("player")

\* C10: every solve on a well-formed level eventually finishes, and a finished
\* solve holds exactly one of Solved or Unsolved with a states-explored count,
\* reached by popping a goal state, emptying the frontier or exceeding the cap.
SolveTerminates ==
  /\ [](pc = "done" =>
          /\ result.status \in {"Solved", "Unsolved"}
          /\ result.statesExplored \in Nat
          /\ \/ result.status = "Solved"
             \/ open = <<>>
             \/ result.statesExplored > cap)
  /\ (pc = "parsed" ~> pc = "done")

\* Witness of C10: a solve that ended because the cap was exceeded with the
\* frontier not yet empty.
SolveTerminatesWitness ==
  /\ pc = "done"
  /\ result.status = "Unsolved"
  /\ result.statesExplored > cap
  /\ open # <<>>

\* C11: once more states are explored than the cap allows, the solve is over
\* with an Unsolved result that carries the explored count and nothing else;
\* a Solved result never comes with the cap exceeded.
CapAborts ==
  /\ explored > cap =>
       (pc = "done" /\ result = [status |-> "Unsolved", statesExplored |-> explored])
  /\ (pc = "done" /\ result.status = "Solved") => result.statesExplored <= cap

\* Witness of C11: a level that the exhaustive search solves, given up on
\* because of the cap.
CapAbortsWitness ==
  /\ pc = "done"
  /\ explored > cap
  /\ result.status = "Unsolved"
  /\ DOMAIN result = {"status", "statesExplored"}
  /\ bruteForce(level, level.player, level.boxes) # NoSolution

\* C12: a level whose initial state has a box on a static-deadlock cell (never
\* a goal) ends Unsolved with at most one state explored.
DeadStartUnsolved ==
  (pc = "done" /\ \E b \in level.boxes : b \in level.dead /\ b \notin level.goals) =>
    (result.status = "Unsolved" /\ result.statesExplored <= 1)

\* Witness of C12: such a level whose dead box still has a legal push, solved
\* for with the default cap.
DeadStartWitness ==
  /\ pc = "done"
  /\ cap = DefaultCap
  /\ \E b \in level.boxes : b \in level.dead /\ b \notin level.goals
  /\ generate_pushes(level, State(normalize(level, level.player, level.boxes),
                                  level.boxes)) # <<>>
  /\ result = Unsolved(1)

\* One box, one cell from its goal, the player able to walk behind it.
oneFromGoal(L) ==
  /\ Cardinality(L.boxes) = 1
  /\ Cardinality(L.goals) = 1
  /\ \E b \in L.boxes : \E d \in Range(Dirs) :
       /\ Step(b, d) \in L.goals
       /\ Back(b, d) \in floodFill(L, L.boxes, {L.player}, {L.player})

\* C13: with one box one cell from its goal and the player able to reach the
\* cell behind it, the result is Solved with one push, and the moves are walks
\* followed by exactly one push.
OnePushSolved ==
  (pc = "done" /\ oneFromGoal(level)) =>
    /\ result.status = "Solved"
    /\ result.pushCount = 1
    /\ result.moves # <<>>
    /\ isPush(result.moves[Len(result.moves)])
    /\ \A i \in 1..(Len(result.moves) - 1) : ~isPush(result.moves[i])

\* Witness of C13: such a level whose moves hold at least two walks.
OnePushWitness ==
  /\ pc = "done"
  /\ oneFromGoal(level)
  /\ result.status = "Solved"
  /\ Len(result.moves) >= 3

\* C14: a level that starts with every box on a goal is Solved with no push,
\* wherever the player stands.
SolvedAtStart ==
  (pc = "done" /\ level.boxes \subseteq level.goals) =>
    (result.status = "Solved" /\ result.pushCount = 0)

\* Witness of C14: two boxes on their goals from the start.
SolvedAtStartWitness ==
  /\ pc = "done"
  /\ Cardinality(level.boxes) = 2
  /\ level.boxes \subseteq level.goals
  /\ result.status = "Solved"
  /\ result.moves = <<>>

\* ============================================================ the Sokobot page
\* The page's globals and the part of the document its handlers read and write,
\* as one record:
\*   currentLevel, boardState, solution, stepIndex, playing   the globals;
\*   playTimer            the playback timeouts pending;
\*   pollTimer, interval  the job named by pollTimer, and the job whose polling
\*                        interval is still running (Null once cleared);
\*   fetches              the requests in flight;
\*   editorMode, editorGrid, selectedTool, isDrawing          the editor globals;
\*   solveBtn, editorSolveBtn   the buttons' disabled flags;
\*   playbackHidden       is the playback bar hidden?
\*   boardView            what the board shows: nothing, a level or editor cells;
\*   room, strokes, budget, sizes   the session's limits: the requests the
\*                        network holds in flight at once, the tool applications
\*                        so far, the user inputs left (Unlimited: any number),
\*                        and the numbers typed into the size inputs.
\* A job is known by the level text it was submitted with and the button that
\* was disabled for it.  currentLevel is NoLevel until a level is chosen or drawn.

\* ---------------------------------------------------------- bounds of the page
\* Most requests in flight at once: while the playback is exercised, and while
\* the editor is.
MaxFetches == 2
EditorFetches == 1
\* The width and height typed into the size inputs.
MinSizeInput == 3
MaxSizeInput == 4
\* The cells the user paints: the first EditCols interior cells of the first
\* interior row, and the border cell above the first of them.
EditCols == 1
\* Most tool applications of one session.
MaxStrokes == 4
\* Most moves of a solution the server answers with.
MaxMoves == 3

\* initEditorGrid clamps both sizes to this range.
MinGridSize == 4
MaxGridSize == 16

\* The puzzles of /api/levels.
Puzzles ==
  << << <<"#", "#", "#", "#", "#">>,
        <<"#", "@", "$", ".", "#">>,
        <<"#", "#", "#", "#", "#">> >>,
     << <<"#", "#", "#", "#">>,
        <<"#", ".", " ", "#">>,
        <<"#", "$", " ", "#">>,
        <<"#", " ", "@", "#">>,
        <<"#", "#", "#", "#">> >> >>

\* The move lists the server answers with.
ServerMoves ==
  {m \in { <<"R">>, <<"l", "d", "U">>, <<"d", "r", "U", "l">> } : Len(m) <= MaxMoves}

\* What a GET for a job is answered with; a failed request counts as one.
Answers ==
  {[status |-> k, moves |-> <<>>] : k \in {"searching", "no_solution", "error", "failed"}}
    \cup {[status |-> "solved", moves |-> m] : m \in ServerMoves}

SizeInputs == MinSizeInput..MaxSizeInput

EditCells == {<<2, 1 + k>> : k \in 1..EditCols} \cup {<<1, 2>>}

Tools == {"wall", "floor", "goal", "box", "player", "eraser"}

\* No level text: what `!currentLevel` tests for.
NoLevel == <<>>

\* No limit on the user's inputs.
Unlimited == 0 - 1

\* ------------------------------------------------------------------ playback
Min(a, b) == IF a < b THEN a ELSE b
Max(a, b) == IF a > b THEN a ELSE b

\* goToStep clamps the step asked for to 0..moves.length.
clampStep(n, len) == Max(0, Min(n, len))

\* A mutation of stopPlayback: the pending timeout is not cleared.
stopPlayback_keepTimer(p) == [p EXCEPT !.playing = FALSE]

\* stopPlayback: clearTimeout cancels the timeout playTimer names, if it is
\* still pending.
stopPlayback(p) ==
  [p EXCEPT !.playing = FALSE, !.playTimer = IF @ > 0 THEN @ - 1 ELSE 0]

\* A mutation of GoToStep: the board is rebuilt from the level, and no move
\* is replayed on it.
GoToStep_noReplay(p, n) ==
  IF p.solution = Null THEN p
  ELSE [p EXCEPT !.stepIndex = clampStep(n, Len(p.solution.moves)),
                 !.boardState = parseLevel(p.currentLevel),
                 !.boardView = "level"]

\* goToStep(n) of the page: nothing without a solution; else the clamped
\* step, the board rebuilt from currentLevel, and the board rendered.
GoToStep(p, n) ==
  IF p.solution = Null THEN p
  ELSE LET m == clampStep(n, Len(p.solution.moves))
       IN [p EXCEPT !.stepIndex = m,
                    !.boardState = goToStep(p.currentLevel, p.solution.moves, m),
                    !.boardView = "level"]

\* tick: one step forward and a new timeout, or the end of the playback.
tick(p) ==
  IF ~p.playing \/ p.solution = Null THEN p
  ELSE IF p.stepIndex >= Len(p.solution.moves) THEN stopPlayback(p)
  ELSE [GoToStep(p, p.stepIndex + 1) EXCEPT !.playTimer = @ + 1]

togglePlay(p) ==
  IF p.playing THEN stopPlayback(p)
  ELSE tick([(IF p.stepIndex >= Len(p.solution.moves) THEN GoToStep(p, 0) ELSE p)
               EXCEPT !.playing = TRUE])

\* -------------------------------------------------------------------- editor
clampSize(n) == Max(MinGridSize, Min(MaxGridSize, n))

initEditorGrid(w, h) ==
  [r \in 1..clampSize(h) |->
     [c \in 1..clampSize(w) |->
        [base |-> IF r = 1 \/ r = clampSize(h) \/ c = 1 \/ c = clampSize(w)
                    THEN "wall" ELSE "floor",
         entity |-> "none"]]]

\* A mutation of clearPlayers: the players already on the grid stay.
clearPlayers_keep(grid) == grid

\* The player tool first removes the player from every cell.
clearPlayers(grid) ==
  [r \in DOMAIN grid |->
     [c \in DOMAIN grid[r] |->
        IF grid[r][c].entity = "player" THEN [grid[r][c] EXCEPT !.entity = "none"]
        ELSE grid[r][c]]]

\* applyTool(r, c): the grid after the selected tool is applied to one cell.
applyTool(grid, tool, r, c) ==
  LET cell == grid[r][c]
  IN CASE tool = "wall"   -> [grid EXCEPT ![r][c] = [base |-> "wall", entity |-> "none"]]
       [] tool = "floor"  -> [grid EXCEPT ![r][c].base = "floor"]
       [] tool = "goal"   -> [grid EXCEPT ![r][c].base =
                                IF cell.base = "goal" THEN "floor" ELSE "goal"]
       [] tool = "box"    -> IF cell.entity = "box"
                               THEN [grid EXCEPT ![r][c].entity = "none"]
                               ELSE [grid EXCEPT ![r][c] =
                                       [base |-> IF cell.base = "wall" THEN "floor"
                                                 ELSE cell.base,
                                        entity |-> "box"]]
       [] tool = "player" -> [clearPlayers(grid) EXCEPT ![r][c] =
                                [base |-> IF cell.base = "wall" THEN "floor"
                                          ELSE cell.base,
                                 entity |-> "player"]]
       [] tool = "eraser" -> [grid EXCEPT ![r][c] = [base |-> "floor", entity |-> "none"]]

GridCells(grid) == {rc \in (DOMAIN grid) \X (1..Len(grid[1])) : TRUE}

gridBoxes(grid) == Cardinality({rc \in GridCells(grid) : grid[rc[1]][rc[2]].entity = "box"})
gridGoals(grid) == Cardinality({rc \in GridCells(grid) : grid[rc[1]][rc[2]].base = "goal"})
gridPlayers(grid) ==
  Cardinality({rc \in GridCells(grid) : grid[rc[1]][rc[2]].entity = "player"})

\* The problems updateValidation finds in the grid.
problems(grid) ==
  {k \in {"player", "boxes", "goals", "counts"} :
     \/ k = "player" /\ gridPlayers(grid) = 0
     \/ k = "boxes" /\ gridBoxes(grid) = 0
     \/ k = "goals" /\ gridGoals(grid) = 0
     \/ k = "counts" /\ gridBoxes(grid) # gridGoals(grid)
                     /\ gridBoxes(grid) > 0 /\ gridGoals(grid) > 0}

\* updateValidation: the editor solve button is enabled exactly when the grid
\* has no problem.
updateValidation(p) ==
  IF p.editorGrid = Null THEN p
  ELSE [p EXCEPT !.editorSolveBtn = problems(p.editorGrid) # {}]

renderEditorBoard(p) ==
  IF p.editorGrid = Null THEN p ELSE [p EXCEPT !.boardView = "editor"]

\* A mutation of CHAR_MAP: a box on a goal is written as a box on floor.
CHAR_MAP_goalLost(cell) ==
  CASE cell.base = "wall" -> "#"
    [] cell.base = "floor" /\ cell.entity = "none" -> " "
    [] cell.base = "floor" /\ cell.entity = "box" -> "$"
    [] cell.base = "floor" /\ cell.entity = "player" -> "@"
    [] cell.base = "goal" /\ cell.entity = "none" -> "."
    [] cell.base = "goal" /\ cell.entity = "box" -> "$"
    [] cell.base = "goal" /\ cell.entity = "player" -> "+"
    [] OTHER -> " "

CHAR_MAP(cell) ==
  CASE cell.base = "wall" -> "#"
    [] cell.base = "floor" /\ cell.entity = "none" -> " "
    [] cell.base = "floor" /\ cell.entity = "box" -> "$"
    [] cell.base = "floor" /\ cell.entity = "player" -> "@"
    [] cell.base = "goal" /\ cell.entity = "none" -> "."
    [] cell.base = "goal" /\ cell.entity = "box" -> "*"
    [] cell.base = "goal" /\ cell.entity = "player" -> "+"
    [] OTHER -> " "

\* editorGridToText: one character per cell, row by row.
editorGridToText(grid) ==
  [r \in DOMAIN grid |-> [c \in DOMAIN grid[r] |-> CHAR_MAP(grid[r][c])]]

\* ------------------------------------------------------------ solve and poll
\* getActiveSolveBtn: the button of the mode the page is in when it is asked.
getActiveSolveBtn(p) == IF p.editorMode THEN "editorSolveBtn" ELSE "solveBtn"

setDisabled(p, btn, flag) ==
  IF btn = "editorSolveBtn" THEN [p EXCEPT !.editorSolveBtn = flag]
  ELSE [p EXCEPT !.solveBtn = flag]

\* A request in flight carries a tag that tells it from the others.
freeTag(p) == CHOOSE k \in 1..p.room :
                /\ k \notin {f.tag : f \in p.fetches}
                /\ \A j \in 1..(k - 1) : j \in {f.tag : f \in p.fetches}

hasRoom(p) == Cardinality(p.fetches) < p.room

\* startSolve up to its first await: the POST of currentLevel is in flight.
\* `origin` records which button was clicked, and the job remembers the button
\* startSolve disabled for it.
startSolve(p, origin) ==
  IF p.currentLevel = NoLevel THEN p
  ELSE LET q == [stopPlayback(p) EXCEPT !.solution = Null, !.playbackHidden = TRUE]
       IN [setDisabled(q, getActiveSolveBtn(q), TRUE) EXCEPT
             !.fetches = @ \cup {[kind |-> "solve",
                                  job |-> [level |-> p.currentLevel,
                                           btn |-> getActiveSolveBtn(q)],
                                  origin |-> origin, tag |-> freeTag(p)]}]

\* pollForResult: the running interval, if any, is cleared and a new one set.
pollForResult(p, jobId) == [p EXCEPT !.pollTimer = jobId, !.interval = jobId]

\* clearInterval(pollTimer): the interval pollTimer names stops.
clearInterval(p) ==
  [p EXCEPT !.interval = IF p.pollTimer # Null /\ @ = p.pollTimer THEN Null ELSE @]

\* -------------------------------------------------------- the page's handlers
PageIdle ==
  [currentLevel |-> NoLevel, boardState |-> Null, solution |-> Null, stepIndex |-> 0,
   playing |-> FALSE, playTimer |-> 0, pollTimer |-> Null, interval |-> Null,
   fetches |-> {}, editorMode |-> FALSE, editorGrid |-> Null,
   selectedTool |-> "goal", isDrawing |-> FALSE, solveBtn |-> TRUE,
   editorSolveBtn |-> TRUE, playbackHidden |-> TRUE, boardView |-> "empty",
   room |-> MaxFetches, strokes |-> 0, budget |-> Unlimited, sizes |-> SizeInputs]

\* The solver's side while a page is exercised.
SolverIdle ==
  /\ text = <<>>
  /\ cap = DefaultCap
  /\ pc = "page"
  /\ level = Null
  /\ open = <<>>
  /\ closed = {}
  /\ cameFrom = <<>>
  /\ explored = 0
  /\ result = Null
  /\ prev = Null
  /\ calls = <<>>
  /\ here = Null

\* The page as loaded, `room` requests at most in flight; whether the load-mode
\* solve button starts disabled is the document's choice.
PageLoaded(room) ==
  /\ SolverIdle
  /\ \E b \in BOOLEAN : page = [PageIdle EXCEPT !.solveBtn = b, !.room = room]
  /\ finder = Null
  /\ chain = Null

PageInit == PageLoaded(MaxFetches)

EditorInit == PageLoaded(EditorFetches)

PageStep(q) ==
  /\ page' = q
  /\ UNCHANGED <<text, cap, pc, level, open, closed, cameFrom, explored, result, prev, calls,
                 here, finder, chain>>

\* A step taken by a user input: one input of the session's budget is spent.
UserStep(q) ==
  /\ page.budget # 0
  /\ PageStep([q EXCEPT !.budget = IF @ > 0 THEN @ - 1 ELSE @])

\* A puzzle is chosen in the dropdown.
PuzzleSelect ==
  /\ ~page.editorMode
  /\ \E idx \in DOMAIN Puzzles :
       UserStep([stopPlayback(page) EXCEPT
                   !.currentLevel = Puzzles[idx],
                   !.solution = Null,
                   !.solveBtn = FALSE,
                   !.playbackHidden = TRUE,
                   !.boardState = parseLevel(Puzzles[idx]),
                   !.boardView = "level"])

\* A click on the load-mode solve button.
SolveClick ==
  /\ ~page.editorMode
  /\ ~page.solveBtn
  /\ hasRoom(page)
  /\ UserStep(startSolve(page, "load"))

\* A click on the editor's solve button.
EditorSolveClick ==
  /\ page.editorMode
  /\ ~page.editorSolveBtn
  /\ hasRoom(page)
  /\ UserStep(startSolve([page EXCEPT !.currentLevel = editorGridToText(page.editorGrid)],
                         "editor"))

\* The answer to the POST: an error, a job to poll, or a failed request.
SolveReply ==
  \E f \in {x \in page.fetches : x.kind = "solve"} :
    \E outcome \in {"error", "job", "failed"} :
      LET q == [page EXCEPT !.fetches = @ \ {f}]
      IN PageStep(IF outcome = "job" THEN pollForResult(q, f.job)
                  ELSE setDisabled(q, getActiveSolveBtn(q), FALSE))

\* The polling interval fires: a GET for its job is in flight.
PollFire ==
  /\ page.interval # Null
  /\ hasRoom(page)
  /\ PageStep([page EXCEPT !.fetches = @ \cup {[kind |-> "poll", job |-> page.interval,
                                                 origin |-> "timer",
                                                 tag |-> freeTag(page)]}])

\* The answer to a GET: still searching, solved, no solution, an error, or a
\* failed request.
PollReply ==
  \E f \in {x \in page.fetches : x.kind = "poll"} :
    \E outcome \in Answers :
      LET q == [page EXCEPT !.fetches = @ \ {f}]
          stopped == [clearInterval(q) EXCEPT !.pollTimer = Null]
      IN PageStep(
           CASE outcome.status = "searching" -> q
             [] outcome.status = "failed" ->
                  setDisabled(clearInterval(q), getActiveSolveBtn(q), FALSE)
             [] outcome.status = "solved" ->
                  setDisabled([stopped EXCEPT
                                 !.solution = [moves |-> outcome.moves, job |-> f.job],
                                 !.stepIndex = 0,
                                 !.boardState = parseLevel(q.currentLevel),
                                 !.boardView = "level",
                                 !.playbackHidden = FALSE],
                              getActiveSolveBtn(q), FALSE)
             [] OTHER -> setDisabled(stopped, getActiveSolveBtn(q), FALSE))

\* The playback buttons.
ResetClick    == ~page.playbackHidden /\ UserStep(GoToStep(page, 0))
StepBackClick == ~page.playbackHidden /\ UserStep(GoToStep(page, page.stepIndex - 1))
StepFwdClick  == ~page.playbackHidden /\ UserStep(GoToStep(page, page.stepIndex + 1))
EndClick      == ~page.playbackHidden
                   /\ UserStep(GoToStep(page, Len(page.solution.moves)))
PlayClick     == ~page.playbackHidden /\ UserStep(togglePlay(page))

\* The playback timeout fires.
Tick ==
  /\ page.playTimer > 0
  /\ PageStep(tick([page EXCEPT !.playTimer = @ - 1]))

\* switchMode(toEditor), with the sizes the inputs hold.
SwitchMode ==
  \E toEditor \in BOOLEAN : \E w \in page.sizes : \E h \in page.sizes :
    LET q == [stopPlayback(page) EXCEPT !.editorMode = toEditor,
                                        !.solution = Null,
                                        !.playbackHidden = TRUE]
    IN UserStep(
         IF toEditor
           THEN updateValidation(renderEditorBoard(
                  IF q.editorGrid = Null
                    THEN [q EXCEPT !.editorGrid = initEditorGrid(w, h)] ELSE q))
           ELSE IF q.currentLevel # NoLevel
                  THEN [q EXCEPT !.boardState = parseLevel(q.currentLevel),
                                 !.boardView = "level"]
                  ELSE [q EXCEPT !.boardView = "empty"])

\* A click on New Grid.
NewGrid ==
  /\ page.editorMode
  /\ \E w \in page.sizes : \E h \in page.sizes :
       UserStep(updateValidation(renderEditorBoard(
         [stopPlayback(page) EXCEPT !.editorGrid = initEditorGrid(w, h),
                                    !.solution = Null,
                                    !.playbackHidden = TRUE])))

\* A click on a tool button.
ToolSelect ==
  /\ page.editorMode
  /\ \E tool \in Tools : UserStep([page EXCEPT !.selectedTool = tool])

\* The mouse goes down on an editor cell.
MouseDown ==
  /\ page.editorMode
  /\ page.boardView = "editor"
  /\ page.strokes < MaxStrokes
  /\ \E rc \in EditCells :
       UserStep(updateValidation(renderEditorBoard(
         [page EXCEPT !.isDrawing = TRUE,
                      !.strokes = @ + 1,
                      !.editorGrid = applyTool(@, page.selectedTool, rc[1], rc[2])])))

\* The mouse enters an editor cell: drag-painting, the player tool excepted.
MouseEnter ==
  /\ page.editorMode
  /\ page.boardView = "editor"
  /\ page.isDrawing
  /\ page.selectedTool # "player"
  /\ page.strokes < MaxStrokes
  /\ \E rc \in EditCells :
       UserStep(updateValidation(renderEditorBoard(
         [page EXCEPT !.strokes = @ + 1,
                      !.editorGrid = applyTool(@, page.selectedTool, rc[1], rc[2])])))

\* The mouse goes up anywhere.
MouseUp ==
  /\ page.isDrawing
  /\ UserStep([page EXCEPT !.isDrawing = FALSE])

\* The page without the painting of editor cells.
PageNext ==
  \/ PuzzleSelect \/ SolveClick \/ EditorSolveClick \/ SolveReply \/ PollFire
  \/ PollReply \/ ResetClick \/ StepBackClick \/ StepFwdClick \/ EndClick
  \/ PlayClick \/ Tick \/ SwitchMode \/ NewGrid

PageSpec == PageInit /\ [][PageNext]_vars

\* The editor: drawing a level and having it solved.
EditorNext ==
  \/ EditorSolveClick \/ SolveReply \/ PollFire \/ PollReply \/ SwitchMode
  \/ NewGrid \/ ToolSelect \/ MouseDown

EditorSpec == EditorInit /\ [][EditorNext]_vars

\* The editor's grid alone: painting by clicks and by dragging.
GridNext == SwitchMode \/ NewGrid \/ ToolSelect \/ MouseDown \/ MouseEnter \/ MouseUp

GridSpec == EditorInit /\ [][GridNext]_vars

\* C15: while a solution is loaded, stepIndex lies in 0..solution.moves.length
\* and boardState is the board of currentLevel after exactly the first
\* stepIndex moves, whatever playback buttons were clicked and timers fired.
PlaybackConsistent ==
  (page # Null /\ page.solution # Null) =>
    /\ page.stepIndex \in 0..Len(page.solution.moves)
    /\ page.boardState =
         goToStep(page.currentLevel, page.solution.moves, page.stepIndex)

\* The playback is running, two steps in, and a box has left its first cell.
PlaybackWitness ==
  /\ page # Null
  /\ page.solution # Null
  /\ page.playing
  /\ page.playTimer > 0
  /\ page.stepIndex = Len(page.solution.moves)
  /\ page.stepIndex = MaxMoves
  /\ page.boardState.boxes # parseLevel(page.currentLevel).boxes

\* C16: every level text whose POST was started by a click on the editor's
\* solve button has exactly one player, at least one box and as many boxes as
\* goals.
EditorSubmitsValid ==
  page # Null =>
    \A f \in page.fetches :
      (f.kind = "solve" /\ f.origin = "editor") => ~malformed(f.job.level)

\* C17: the editor grid never holds more than one player.
AtMostOnePlayer ==
  (page # Null /\ page.editorGrid # Null) => gridPlayers(page.editorGrid) <= 1

\* The player stands on a border cell the player tool turned into floor, and
\* a box is on the grid too.
OnePlayerWitness ==
  /\ page # Null
  /\ page.editorGrid # Null
  /\ page.editorGrid[1][2].entity = "player"
  /\ page.editorGrid[2][2].entity = "box"
  /\ page.editorGrid[2][2].base = "goal"
  /\ page.isDrawing
  /\ page.selectedTool = "goal"

\* ======================================================= the chain finder page
\* The page's state as one record:
\*   startInput, endInput, submitBtn   the controls' disabled flags;
\*   pollTimer, interval   the job named by pollTimer, and the job whose polling
\*                         interval is still running (NoJob for none);
\*   resultDiv             what the result area shows, and for which search;
\*   fetches               the requests in flight;
\*   searches              the searches submitted so far;
\*   jobs                  the server's jobs, each searching or ended.
\* A search is known by its number, and so is the job the server starts for it.

\* Most searches submitted in one session.
MaxSearches == 2
\* Most requests of the chain finder page in flight at once.
MaxRequests == 2

\* No job: pollTimer = null.
NoJob == 0

\* setLoading(loading): the three controls together.
setLoading(f, loading) ==
  [f EXCEPT !.startInput = loading, !.endInput = loading, !.submitBtn = loading]

\* stopPolling: the interval pollTimer names is cleared, and pollTimer with it.
stopPolling(f) ==
  IF f.pollTimer = NoJob THEN f
  ELSE [f EXCEPT !.interval = IF @ = f.pollTimer THEN NoJob ELSE @,
                 !.pollTimer = NoJob]

\* startPolling(jobId): the running interval, if any, is cleared and a new one
\* set.
startPolling(f, jobId) == [f EXCEPT !.pollTimer = jobId, !.interval = jobId]

show(f, kind, search) == [f EXCEPT !.resultDiv = [kind |-> kind, search |-> search]]

requestTag(f) == CHOOSE k \in 1..MaxRequests :
                   /\ k \notin {x.tag : x \in f.fetches}
                   /\ \A j \in 1..(k - 1) : j \in {x.tag : x \in f.fetches}

FinderIdle ==
  [startInput |-> FALSE, endInput |-> FALSE, submitBtn |-> FALSE,
   pollTimer |-> NoJob, interval |-> NoJob,
   resultDiv |-> [kind |-> "empty", search |-> 0],
   fetches |-> {}, searches |-> 0, jobs |-> <<>>]

FinderInit ==
  /\ SolverIdle
  /\ page = Null
  /\ finder = FinderIdle
  /\ chain = Null

FinderStep(f) ==
  /\ finder' = f
  /\ UNCHANGED <<text, cap, pc, level, open, closed, cameFrom, explored, result, prev, calls,
                 here, page, chain>>

\* The form is submitted, with both titles filled in or not.
Submit ==
  /\ ~finder.submitBtn
  /\ finder.searches < MaxSearches
  /\ Cardinality(finder.fetches) < MaxRequests
  /\ \E filled \in BOOLEAN :
       FinderStep(
         IF ~filled THEN finder
         ELSE [show(setLoading(finder, TRUE), "loading", finder.searches + 1) EXCEPT
                 !.searches = @ + 1,
                 !.fetches = @ \cup {[kind |-> "post", search |-> finder.searches + 1,
                                      tag |-> requestTag(finder)]}])

\* The answer to the POST: a chain at once, a job to poll, an error, or a
\* failed request.
PostReply ==
  \E x \in {y \in finder.fetches : y.kind = "post"} :
    \E outcome \in {"found", "ok", "error", "failed"} :
      LET f == [finder EXCEPT !.fetches = @ \ {x}]
      IN FinderStep(
           CASE outcome = "found" -> setLoading(show(f, "chain", x.search), FALSE)
             [] outcome = "ok" ->
                  startPolling([f EXCEPT !.jobs = [j \in DOMAIN @ \cup {x.search} |->
                                           IF j = x.search THEN "searching" ELSE @[j]]],
                               x.search)
             [] OTHER -> setLoading(show(f, "error", x.search), FALSE))

\* The polling interval fires: a GET for its job is in flight.
PollTimerFire ==
  /\ finder.interval # NoJob
  /\ Cardinality(finder.fetches) < MaxRequests
  /\ FinderStep([finder EXCEPT !.fetches = @ \cup {[kind |-> "poll",
                                                     search |-> finder.interval,
                                                     tag |-> requestTag(finder)]}])

\* The server's search thread ends a job.
JobEnds ==
  \E j \in DOMAIN finder.jobs :
    /\ finder.jobs[j] = "searching"
    /\ \E outcome \in {"found", "not_found", "error"} :
         FinderStep([finder EXCEPT !.jobs[j] = outcome])

\* The answer to a GET: the job's state as the server holds it, or a failed
\* request.
PollAnswer ==
  \E x \in {y \in finder.fetches : y.kind = "poll"} :
    \E failed \in BOOLEAN :
      LET f == [finder EXCEPT !.fetches = @ \ {x}]
          status == IF failed THEN "failed" ELSE f.jobs[x.search]
      IN FinderStep(
           CASE status = "searching" -> show(f, "loading", x.search)
             [] status = "found" ->
                  setLoading(show(stopPolling(f), "chain", x.search), FALSE)
             [] status = "not_found" ->
                  setLoading(show(stopPolling(f), "not-found", x.search), FALSE)
             [] OTHER -> setLoading(show(stopPolling(f), "error", x.search), FALSE))

FinderNext == Submit \/ PostReply \/ PollTimerFire \/ JobEnds \/ PollAnswer

FinderSpec == FinderInit /\ [][FinderNext]_vars

\* Is the search still going on: its POST unanswered, or its job not yet seen
\* ended by the page?
searching(f, s) ==
  \/ \E x \in f.fetches : x.kind = "post" /\ x.search = s
  \/ f.interval = s

\* C18: from its submission until it ends every search keeps the two inputs and
\* the submit button disabled, and once a search has ended, whatever its
\* outcome, no polling timer runs and the controls are enabled again.
FormLockedWhileSearching ==
  finder # Null =>
    /\ \A s \in 1..finder.searches :
         searching(finder, s) =>
           (finder.startInput /\ finder.endInput /\ finder.submitBtn)
    /\ (\A s \in 1..finder.searches : ~searching(finder, s)) =>
         (finder.interval = NoJob
            /\ ~finder.startInput /\ ~finder.endInput /\ ~finder.submitBtn)

\* C20: a parent link, once written, is never written again, and every state
\* popped for expansion is popped with a gCost equal to the number of links
\* between it and the initial state.
LinksLowestCost ==
  [][/\ \A s \in DOMAIN cameFrom :
          s \in DOMAIN cameFrom' /\ cameFrom'[s] = cameFrom[s]
     /\ closed' # closed =>
          LET e == open[popIndex(open)]
          IN Len(reconstruct_solution(cameFrom, e.state)) = e.g]_vars

\* ===================================================== the chain finder's search
\* One run of find_chain(start, end) as one record:
\*   links             the link graph of the articles, a set of <<from, to>> pairs;
\*   start, end        the two titles;
\*   pc                "call", "search" or "done";
\*   depth             the depth limit of the next lockstep iteration;
\*   forward_visited   title -> path from start to title;
\*   backward_visited  title -> path from end to title;
\*   result            the chain returned, or None.
\* Articles are numbered; get_outgoing_links and get_backlinks yield their
\* titles in ascending order.

\* Articles of the link graph.
MaxArticles == 8
\* Links beside the line 1 -> 2 -> ... -> MaxArticles.
MaxExtraLinks == 2
\* An extra link joins two articles at most this far apart on the line.
MaxSpan == 3

\* Main loop (lockstep, depths 1 through 3).
MaxDepth == 3

\* find_chain returns None: not found.
None == <<>>

Articles == 1..MaxArticles

LineLinks == {<<a, a + 1>> : a \in 1..(MaxArticles - 1)}

ExtraLinks ==
  {<<a, b>> \in Articles \X Articles :
     a # b /\ a - b <= MaxSpan /\ b - a <= MaxSpan /\ <<a, b>> \notin LineLinks}

\* The subsets of S with at most n elements.
RECURSIVE upTo(_, _)
upTo(S, n) ==
  IF n = 0 THEN {{}}
  ELSE Bind(upTo(S, n - 1), LAMBDA less : less \cup {x \cup {e} : x \in less, e \in S})

\* The link graphs: the line, with one of its links cut or none, and up to
\* MaxExtraLinks links more.
LinkGraphs ==
  {(LineLinks \ cut) \cup extra :
     cut \in {{}} \cup {{l} : l \in LineLinks},
     extra \in upTo(ExtraLinks, MaxExtraLinks)}

get_outgoing_links(links, title) == {b \in Articles : <<title, b>> \in links}
get_backlinks(links, title) == {a \in Articles : <<a, title>> \in links}

neighbours(links, direction, title) ==
  IF direction = "forward" THEN get_outgoing_links(links, title)
  ELSE get_backlinks(links, title)

RECURSIVE Ascending(_)
Ascending(S) ==
  IF S = {} THEN <<>>
  ELSE Bind(CHOOSE a \in S : \A b \in S : a <= b,
            LAMBDA a : <<a>> \o Ascending(S \ {a}))

Reverse(s) == [i \in 1..Len(s) |-> s[Len(s) + 1 - i]]

\* A node already in the visited dict with a shorter path than the one it is
\* reached by now (visited at a shallower depth) is skipped.
skipVisited_any(visited, title, path) == title \in DOMAIN visited
skipVisited(visited, title, path) ==
  title \in DOMAIN visited /\ Len(visited[title]) < Len(path)

RECURSIVE dfs(_, _, _, _, _), expand(_, _, _, _, _, _)
\* Depth-limited DFS helper: expands the last node of `path` while the depth
\* limit allows, records each newly visited node with its path, skips the
\* nodes visited at a shallower depth.  Yields the visited dict.
dfs(links, direction, path, max, visited) ==
  IF Len(path) - 1 >= max THEN visited
  ELSE expand(links, direction, Ascending(neighbours(links, direction, path[Len(path)])),
              path, max, visited)

expand(links, direction, todo, path, max, visited) ==
  IF todo = <<>> THEN visited
  ELSE Bind(Append(path, Head(todo)), LAMBDA p :
         expand(links, direction, Tail(todo), path, max,
           IF skipVisited(visited, Head(todo), p) THEN visited
           ELSE dfs(links, direction, p, max,
                    IF Head(todo) \in DOMAIN visited THEN visited
                    ELSE visited @@ (Head(todo) :> p))))

\* For a meeting node: forward path + reversed backward path, the meeting node
\* once.
fullChain(fv, bv, m) == fv[m] \o Tail(Reverse(bv[m]))

\* The chains of the meeting nodes that no other meeting node's chain is
\* shorter than.
shortestChains(fv, bv) ==
  LET meeting == DOMAIN fv \cap DOMAIN bv
      chains == {fullChain(fv, bv, m) : m \in meeting}
  IN {c \in chains : \A d \in chains : Len(c) <= Len(d)}

ChainIdle(links, start, end) ==
  [links |-> links, start |-> start, end |-> end, pc |-> "call", depth |-> 0,
   forward_visited |-> <<>>, backward_visited |-> <<>>, result |-> None]

ChainInit ==
  /\ SolverIdle
  /\ page = Null
  /\ finder = Null
  /\ \E links \in LinkGraphs, end \in Articles : chain = ChainIdle(links, 1, end)

ChainStep(c) ==
  /\ chain' = c
  /\ UNCHANGED <<text, cap, pc, level, open, closed, cameFrom, explored, result, prev, calls,
                 here, page, finder>>

\* find_chain is called: the trivial case returns at once, otherwise each side
\* starts from its origin.
FindChain ==
  /\ chain.pc = "call"
  /\ ChainStep(
       IF chain.start = chain.end
         THEN [chain EXCEPT !.pc = "done", !.result = <<chain.start>>]
         ELSE [chain EXCEPT !.pc = "search", !.depth = 1,
                            !.forward_visited = chain.start :> <<chain.start>>,
                            !.backward_visited = chain.end :> <<chain.end>>])

\* One iteration of the main loop: forward DFS and backward DFS to the current
\* depth limit, then the intersection check.
SearchDepth ==
  /\ chain.pc = "search"
  /\ LET fv == dfs(chain.links, "forward", <<chain.start>>, chain.depth,
                   chain.forward_visited)
         bv == dfs(chain.links, "backward", <<chain.end>>, chain.depth,
                   chain.backward_visited)
         seen == [chain EXCEPT !.forward_visited = fv, !.backward_visited = bv]
     IN IF DOMAIN fv \cap DOMAIN bv # {}
          THEN \E c \in shortestChains(fv, bv) :
                 ChainStep([seen EXCEPT !.pc = "done", !.result = c])
          ELSE IF chain.depth = MaxDepth
                 THEN ChainStep([seen EXCEPT !.pc = "done", !.result = None])
                 ELSE ChainStep([seen EXCEPT !.depth = @ + 1])

ChainNext == FindChain \/ SearchDepth

ChainSpec == ChainInit /\ [][ChainNext]_vars

\* The articles a path of at most n links leads to from the articles of S.
RECURSIVE within(_, _, _)
within(links, S, n) ==
  IF n = 0 THEN S
  ELSE within(links, S \cup {l[2] : l \in {x \in links : x[1] \in S}}, n - 1)

NoPath == 0 - 1

\* The least number of links on a path from a to b, by the sets of articles
\* within 0, 1, 2, ... links of a.
hops(links, a, b) ==
  LET ns == {n \in 0..MaxArticles : b \in within(links, {a}, n)}
  IN IF ns = {} THEN NoPath ELSE CHOOSE n \in ns : \A k \in ns : n <= k

isChain(links, c, a, b) ==
  /\ c # None
  /\ c[1] = a
  /\ c[Len(c)] = b
  /\ \A i \in 1..(Len(c) - 1) : <<c[i], c[i + 1]>> \in links

\* C19: the lockstep search returns a shortest chain: when a path of at most
\* 2 * MaxDepth links joins start to end, the result starts at start, ends at
\* end, follows an outgoing link at every step and has the least possible
\* number of links; otherwise the result is None.
ShortestChainFound ==
  (chain # Null /\ chain.pc = "done") =>
    LET least == hops(chain.links, chain.start, chain.end)
    IN IF least # NoPath /\ least <= 2 * MaxDepth
         THEN /\ isChain(chain.links, chain.result, chain.start, chain.end)
              /\ Len(chain.result) - 1 = least
         ELSE chain.result = None

\* A chain of six links is found where an extra link has cut the line's seven
\* to six, and the depth-3 iteration was needed.
ShortestChainWitness ==
  /\ chain # Null
  /\ chain.pc = "done"
  /\ chain.depth = MaxDepth
  /\ chain.end = MaxArticles
  /\ chain.result # None
  /\ Len(chain.result) - 1 = 2 * MaxDepth
  /\ chain.links \ LineLinks # {}
  /\ \E i \in 1..(Len(chain.result) - 1) :
       <<chain.result[i], chain.result[i + 1]>> \notin LineLinks

\* ================================================= the solver, claims C21 on
\* The search and the walk over the push graph side by side: a behaviour is a
\* solve of a level text, or a walk from a layout.
SolverNext == Next \/ Place \/ Push

SolverSpec == (Init \/ PushInit) /\ [][SolverNext]_vars

hOf(s) == heuristic(s.boxes, level.goals)

\* C21: the heuristic is consistent on the push graph, h(s) <= h(s') + 1 for
\* every legal push from s to s', and it is 0 on every state with all boxes on
\* goals; so when a state is expanded no entry left or put on the frontier has
\* an fCost below that of the expanded one, and the fCost of successively
\* expanded states never decreases.
HeuristicConsistent ==
  /\ [](pc = "push" /\ allOnGoals(level, here.boxes) => hOf(here) = 0)
  /\ [](\A j \in DOMAIN open : allOnGoals(level, open[j].state.boxes) => open[j].h = 0)
  /\ [][(pc = "push" /\ pc' = "push") => hOf(here) <= hOf(here') + 1]_vars
  /\ [][closed' # closed =>
          \A j \in DOMAIN open' : open'[j].f >= open[popIndex(open)].f]_vars

\* Witness of C21: a pushed-to state with a push that lowers h by one and a
\* push that raises it by one.
HeuristicConsistentWitness ==
  /\ pc = "push"
  /\ here.boxes # level.boxes
  /\ LET succs == generate_pushes(level, here)
     IN /\ \E k \in DOMAIN succs : hOf(succs[k].state) = hOf(here) - 1
        /\ \E k \in DOMAIN succs : hOf(succs[k].state) = hOf(here) + 1

\* Is the walk-path of push record p, made in state s, a walk of the player:
\* from the canonical cell of s, over adjacent cells of the region of s (no
\* wall, no box), to the cell behind the box?
validWalk(L, s, p) ==
  LET region == walkFill(L, s.boxes, {s.player}, {s.player})
  IN /\ p.path # <<>>
     /\ p.path[1] = s.player
     /\ s.player = MinCell(region)
     /\ \A i \in DOMAIN p.path :
          /\ p.path[i] \in region
          /\ Floor(L, p.path[i])
          /\ p.path[i] \notin s.boxes
     /\ \A i \in 1..(Len(p.path) - 1) : manhattan(p.path[i], p.path[i + 1]) = 1
     /\ p.path[Len(p.path)] = Back(p.box, p.dir)

\* C22: the walk-path of every push record is a sequence of orthogonally
\* adjacent cells that starts at the parent state's canonical position, stays
\* inside the parent state's region (no wall, no box) and ends at the cell the
\* player pushes from; for every push generated on the push graph and every
\* push kept in the parent-link table.
WalkPathValid ==
  /\ pc = "push" =>
       LET succs == generate_pushes(level, here)
       IN \A k \in DOMAIN succs : validWalk(level, here, succs[k].push)
  /\ \A s \in DOMAIN cameFrom : validWalk(level, cameFrom[s].parent, cameFrom[s].push)

\* Witness of C22: a pushed-to state with a push whose walk-path has four
\* cells or more.
WalkPathWitness ==
  /\ pc = "push"
  /\ here.boxes # level.boxes
  /\ LET succs == generate_pushes(level, here)
     IN \E k \in DOMAIN succs : Len(succs[k].push.path) >= 4

\* The cells the player may stand on, the boxes being where they are.
freeCells(L, boxes) == FloorCells(L) \ boxes

regionOf(L, boxes, p) == walkFill(L, boxes, {p}, {p})

\* C23: for a fixed box set, every player position of one region normalises to
\* the same cell, the row-major minimum of the region; normalising a
\* normalised position changes nothing; and positions of different regions
\* never normalise to the same cell.
NormalizeCanonical ==
  pc = "push" =>
    Bind({<<p, regionOf(level, here.boxes, p), normalize(level, p, here.boxes)>> :
            p \in freeCells(level, here.boxes)},
         LAMBDA T :
           \A x \in T :
             /\ x[3] = MinCell(x[2])
             /\ \E y \in T : y[1] = x[3] /\ y[3] = x[3]
             /\ \A y \in T : (y[1] \in x[2]) = (y[3] = x[3]))

\* Witness of C23: a pushed-to state whose boxes and walls leave two regions,
\* one of them of three cells or more, the player's canonical cell not being
\* the cell the last push left the player on.
NormalizeWitness ==
  /\ pc = "push"
  /\ here.boxes # level.boxes
  /\ LET region == regionOf(level, here.boxes, here.player)
     IN /\ Cardinality(region) >= 3
        /\ freeCells(level, here.boxes) \ region # {}
        /\ \E p \in region : p # here.player /\ normalize(level, p, here.boxes) = here.player

\* May box b be pushed in direction d in state s: the cell opposite d from b
\* is in the player's region, the cell beyond b is floor and holds no box.
mayPush(L, s, b, d) ==
  /\ Back(b, d) \in regionOf(L, s.boxes, s.player)
  /\ Floor(L, Step(b, d))
  /\ Step(b, d) \notin s.boxes

\* C24: the push generator emits a successor for box b and direction d exactly
\* when the cell opposite d from b lies in the player's region and the cell
\* beyond b is floor and holds no other box, and one successor only; the
\* successor has b moved to that cell, every other box where it was, and the
\* player's region recomputed from b's former cell.
PushesExact ==
  pc = "push" =>
    Bind(generate_pushes(level, here), LAMBDA succs :
      /\ \A b \in here.boxes : \A d \in Range(Dirs) :
           mayPush(level, here, b, d) =
             (\E k \in DOMAIN succs : succs[k].push.box = b /\ succs[k].push.dir = d)
      /\ \A k, j \in DOMAIN succs :
           (succs[k].push.box = succs[j].push.box /\ succs[k].push.dir = succs[j].push.dir)
             => k = j
      /\ \A k \in DOMAIN succs :
           LET b == succs[k].push.box
               to == Step(b, succs[k].push.dir)
           IN /\ b \in here.boxes
              /\ succs[k].state.boxes = (here.boxes \ {b}) \cup {to}
              /\ Cardinality(succs[k].state.boxes) = Cardinality(here.boxes)
              /\ succs[k].state.player = MinCell(regionOf(level, succs[k].state.boxes, b)))

\* Witness of C24: a state of two boxes with a legal push, a push
\* ruled out only because the player cannot reach the cell behind the box, and
\* a push ruled out only because another box stands on the destination.
PushesExactWitness ==
  /\ pc = "push"
  /\ Cardinality(here.boxes) = 2
  /\ \E b \in here.boxes : \E d \in Range(Dirs) : mayPush(level, here, b, d)
  /\ \E b \in here.boxes : \E d \in Range(Dirs) :
       /\ Floor(level, Back(b, d)) /\ Back(b, d) \notin here.boxes
       /\ Back(b, d) \notin regionOf(level, here.boxes, here.player)
       /\ Floor(level, Step(b, d)) /\ Step(b, d) \notin here.boxes
  /\ \E b \in here.boxes : \E d \in Range(Dirs) :
       /\ Back(b, d) \in regionOf(level, here.boxes, here.player)
       /\ Step(b, d) \in here.boxes

\* The states a search has created so far: on the frontier, visited, or in the
\* parent-link table as child or parent.
created ==
  {open[j].state : j \in DOMAIN open} \cup closed \cup DOMAIN cameFrom
    \cup {cameFrom[s].parent : s \in DOMAIN cameFrom}

wellFormed(L, s) ==
  /\ Cardinality(s.boxes) = Cardinality(L.goals)
  /\ \A b \in s.boxes : Floor(L, b)
  /\ Floor(L, s.player)
  /\ s.player \notin s.boxes

\* C25: in every state created during a search the boxes are as many as the
\* goals, they stand on distinct non-wall cells, and playerRegionId is a
\* non-wall cell that holds no box.
StatesWellFormed ==
  pc \in {"search", "done"} => \A s \in created : wellFormed(level, s)

\* Witness of C25: a search of a two-box level with four states visited and
\* more on the frontier.
StatesWellFormedWitness ==
  /\ pc = "search"
  /\ Cardinality(level.boxes) = 2
  /\ Cardinality(closed) >= 4
  /\ open # <<>>
  /\ \E s \in closed : s.boxes \cap level.boxes = {}

RECURSIVE pushFill(_, _, _)
\* The cells a lone box can be brought to from the cells of `frontier` by
\* one-cell pushes, each with floor at the destination and floor at the cell
\* behind the box.
pushFill(L, frontier, seen) ==
  IF frontier = {} THEN seen
  ELSE LET new == {Step(x[1], x[2]) :
                     x \in {y \in frontier \X Range(Dirs) :
                              /\ Floor(L, Step(y[1], y[2]))
                              /\ Floor(L, Back(y[1], y[2]))}} \ seen
       IN pushFill(L, new, seen \cup new)

\* C26: the static-deadlock map agrees with forward single-box reachability: a
\* floor cell is unmarked exactly when a lone box placed there can be brought
\* onto some goal by one-cell pushes with floor at the destination and floor
\* behind the box; no goal cell is marked, and only floor cells are.
StaticMapExact ==
  (pc = "push" /\ here.boxes = level.boxes) =>
    /\ \A c \in FloorCells(level) :
         (c \notin level.dead) = (pushFill(level, {c}, {c}) \cap level.goals # {})
    /\ level.dead \cap level.goals = {}
    /\ level.dead \subseteq FloorCells(level)

\* Witness of C26: a level with an inner wall whose map marks a cell that
\* touches a wall on one side only, and leaves unmarked a cell that is no goal
\* and from which the nearest goal is two pushes or more away.
StaticMapWitness ==
  /\ pc = "push"
  /\ here.boxes = level.boxes
  /\ level.walls \cap Interior # {}
  /\ \E c \in level.dead : Cardinality(wallSides(level, c)) = 1
  /\ \E c \in FloorCells(level) \ level.dead :
       /\ c \notin level.goals
       /\ \A g \in level.goals : manhattan(c, g) >= 2

\* The initial search state of the level.
initialState == State(normalize(level, level.player, level.boxes), level.boxes)

\* C27: no successor flagged by either detector is ever put on the frontier,
\* into the visited set or into the parent-link table: every state a search
\* has created, the initial one apart, has no box on a static-deadlock cell
\* and no frozen box off a goal.
PrunedNeverKept ==
  pc \in {"search", "done"} =>
    \A s \in created \ {initialState} :
      /\ ~simpleDeadlock(level, s.boxes)
      /\ ~freezeDeadlock(level, s.boxes)

\* Witness of C27: a search that has expanded a state other than the initial
\* one with a flagged successor, which is nowhere among the states created.
PrunedNeverKeptWitness ==
  /\ pc = "search"
  /\ ~is_deadlock(level, level.boxes)
  /\ \E s \in closed \ {initialState} :
       LET succs == generate_pushes(level, s)
       IN \E k \in DOMAIN succs :
            /\ is_deadlock(level, succs[k].state.boxes)
            /\ succs[k].state \notin created

\* The scan orders of a box set: its cells in every order.
scanOrders(boxes) ==
  {o \in [1..Cardinality(boxes) -> boxes] : \A i, j \in DOMAIN o : o[i] = o[j] => i = j}

RECURSIVE passes(_, _, _, _)
\* The marked set after k full passes in the given scan order.
passes(L, order, frozen, k) ==
  IF k = 0 THEN frozen ELSE passes(L, order, freezePass(L, order, frozen), k - 1)

\* C28: whatever the order in which the boxes are scanned, the marked set only
\* grows from pass to pass, the pass after the n-th (n the number of boxes)
\* marks nothing, so the fixpoint ends after at most n + 1 passes, and the
\* final marked set is the same for every order.
FreezeFixpoint ==
  pc = "push" =>
    LET n == Cardinality(here.boxes)
    IN \A order \in scanOrders(here.boxes) :
         /\ \A k \in 0..n :
              passes(level, order, {}, k) \subseteq passes(level, order, {}, k + 1)
         /\ passes(level, order, {}, n + 1) = passes(level, order, {}, n)
         /\ passes(level, order, {}, n) = frozenBoxes(level, here.boxes)

\* Witness of C28: a state of two boxes, one of them walled in on all four
\* sides and marked by the first pass, the other left unmarked.
FreezeFixpointWitness ==
  /\ pc = "push"
  /\ Cardinality(here.boxes) = 2
  /\ Cardinality(frozenBoxes(level, here.boxes)) = 1
  /\ freezePass(level, SortCells(here.boxes), {}) # {}

\* The moves tagged as pushes, in order.
pushMoves(moves) == SelectSeq(moves, isPush)

\* C29: when a solve returns Solved, the moves tagged as pushes are as many as
\* pushCount and as the push records on the parent-link path from the initial
\* state to the goal state popped, and they are the directions of those
\* records in the order of the path.
PushesInPathOrder ==
  [][(pc = "search" /\ pc' = "done" /\ result'.status = "Solved") =>
       LET path == reconstruct_solution(cameFrom, open[popIndex(open)].state)
       IN /\ Len(pushMoves(result'.moves)) = result'.pushCount
          /\ result'.pushCount = Len(path)
          /\ pushMoves(result'.moves) = [i \in 1..Len(path) |-> toUpperCase(path[i].dir)]]_vars

\* Witness of C29: a Solved result of three pushes or more, not all in one
\* direction, with walks between the first and the last push.
PushesInPathOrderWitness ==
  /\ pc = "done"
  /\ result.status = "Solved"
  /\ result.pushCount >= 3
  /\ Cardinality(Range(pushMoves(result.moves))) >= 2
  /\ Len(result.moves) > result.pushCount
  /\ \E i, j, k \in DOMAIN result.moves :
       /\ i < j /\ j < k
       /\ isPush(result.moves[i]) /\ ~isPush(result.moves[j]) /\ isPush(result.moves[k])

\* C30: the counts handed to successive onProgress calls of one solve are
\* strictly increasing, and none exceeds the states explored so far, nor the
\* statesExplored of the result the solve returns.
ProgressIncreasing ==
  /\ \A i \in 1..(Len(calls) - 1) : calls[i] < calls[i + 1]
  /\ \A i \in DOMAIN calls : calls[i] <= explored
  /\ pc = "done" => \A i \in DOMAIN calls : calls[i] <= result.statesExplored

\* Witness of C30: a finished solve with two calls or more, the last of them
\* with a count below the statesExplored returned.
ProgressWitness ==
  /\ pc = "done"
  /\ Len(calls) >= 2
  /\ calls[Len(calls)] < result.statesExplored
\* =========================================== the Sokobot page, claims C31 on

\* C31: whenever a solution is loaded and the playback bar is shown, the
\* solution is the answer to the job submitted with the level text that
\* currentLevel holds: the answer of an earlier or abandoned job is never
\* installed as the solution of another level.
SolutionOfCurrentLevel ==
  (page # Null /\ page.solution # Null /\ ~page.playbackHidden) =>
    page.solution.job.level = page.currentLevel

\* A solve job is in progress: its POST is in flight, or it is being polled.
jobInProgress(p) ==
  (\E f \in p.fetches : f.kind = "solve") \/ p.interval # Null

\* The disabled flag of the solve button of the mode the page is in.
activeBtnDisabled(p) == IF p.editorMode THEN p.editorSolveBtn ELSE p.solveBtn

\* C32: while a solve job is in progress, from the click that submits it to
\* its terminal poll answer, the solve button of the active mode is disabled,
\* so that no second job can be submitted before the first one ends.
SolveLockedWhileSolving ==
  (page # Null /\ jobInProgress(page)) => activeBtnDisabled(page)

\* The disabled flag of one solve button.
btnDisabled(p, btn) == IF btn = "editorSolveBtn" THEN p.editorSolveBtn ELSE p.solveBtn

\* Does this step handle a terminal answer to the request f?  The request is
\* gone and the handler did more than take it away; the answer to a POST that
\* starts the polling is not terminal.
terminalAnswer(f) ==
  /\ f \notin page'.fetches
  /\ page' # [page EXCEPT !.fetches = @ \ {f}]
  /\ f.kind = "solve" =>
       (page'.pollTimer = page.pollTimer /\ page'.interval = page.interval)

\* C33: when a job reaches a terminal answer (solved, no solution, an error
\* or a lost connection), the solve button that startSolve disabled for it is
\* enabled, also when the mode was switched while the job was running.
ButtonReenabled ==
  [][\A f \in page.fetches : terminalAnswer(f) => ~btnDisabled(page', f.job.btn)]_vars

\* One move of a replay keeps the boxes: a lowercase move leaves the box set
\* alone, an uppercase move takes the box in front of the player one cell on,
\* to a cell that holds no box.
keepsBoxes(before, move) ==
  LET after == applyMove(before, move)
      front == Step(before.player, move)
  IN /\ Cardinality(after.boxes) = Cardinality(before.boxes)
     /\ IF isPush(move)
          THEN /\ front \in before.boxes
               /\ after.boxes = (before.boxes \ {front}) \cup {Step(front, move)}
          ELSE after.boxes = before.boxes

\* C34: replaying a move list with applyMove never changes the number of boxes
\* on the board: a lowercase move changes the player's cell only, an uppercase
\* move relocates exactly one existing box by one cell in the move's direction.
ReplayKeepsBoxes ==
  (page # Null /\ page.solution # Null) =>
    /\ \A n \in 1..Len(page.solution.moves) :
         keepsBoxes(goToStep(page.currentLevel, page.solution.moves, n - 1),
                    page.solution.moves[n])
    /\ Cardinality(page.boardState.boxes) =
         Cardinality(parseLevel(page.currentLevel).boxes)

\* The cells of a grid picked by a test on the cell.
cellsWhere(grid, Test(_)) == {rc \in GridCells(grid) : Test(grid[rc[1]][rc[2]])}

\* C35: for every editor grid reachable by tool applications, parsing the text
\* editorGridToText writes gives back exactly the grid's wall cells, goal
\* cells, box cells and player cell, and the grid's width and height.
EditorRoundTrip ==
  (page # Null /\ page.editorGrid # Null) =>
    LET grid == page.editorGrid
        board == parseLevel(editorGridToText(grid))
    IN /\ board.walls = cellsWhere(grid, LAMBDA cell : cell.base = "wall")
       /\ board.goals = cellsWhere(grid, LAMBDA cell : cell.base = "goal")
       /\ board.boxes = cellsWhere(grid, LAMBDA cell : cell.entity = "box")
       /\ (IF board.player = Null THEN {} ELSE {board.player}) =
            cellsWhere(grid, LAMBDA cell : cell.entity = "player")
       /\ board.width = Len(grid[1])
       /\ board.height = Len(grid)

\* The player stands on a goal painted on a former border cell, and a box
\* stands on a goal inside.
EditorRoundTripWitness ==
  /\ page # Null
  /\ page.editorGrid # Null
  /\ page.editorGrid[1][2] = [base |-> "goal", entity |-> "player"]
  /\ page.editorGrid[2][2] = [base |-> "goal", entity |-> "box"]

\* ------------------------------------------------- the playback left alone
\* Most user inputs of a session whose playback is left to run.
MaxInputs == 5

PlayInit ==
  /\ SolverIdle
  /\ \E b \in BOOLEAN : page = [PageIdle EXCEPT !.solveBtn = b, !.budget = MaxInputs]
  /\ finder = Null
  /\ chain = Null

\* Load mode: choosing, solving and playing back, with MaxInputs user inputs.
PlayNext ==
  \/ PuzzleSelect \/ SolveClick \/ SolveReply \/ PollFire \/ PollReply
  \/ ResetClick \/ StepBackClick \/ StepFwdClick \/ EndClick \/ PlayClick \/ Tick

\* A pending timeout fires.
PlaySpec == PlayInit /\ [][PlayNext]_vars /\ WF_vars(Tick)

\* The playback has run to the end and stopped.
playbackEnded ==
  /\ ~page.playing
  /\ page.playTimer = 0
  /\ page.solution # Null
  /\ page.stepIndex = Len(page.solution.moves)

\* C36: once play is started with a solution loaded and the user gives no
\* further input, each timer tick advances stepIndex by exactly one until the
\* tick that finds stepIndex = solution.moves.length stops the playback; the
\* playback reaches that end, with playing false and no timer pending; and at
\* no time is more than one play timer pending.
PlaybackRunsToEnd ==
  /\ [][Tick => \/ page'.stepIndex = page.stepIndex + 1
                \/ /\ page.solution # Null
                   /\ page.stepIndex = Len(page.solution.moves)
                   /\ playbackEnded']_vars
  /\ [](page.playTimer <= 1)
  /\ (page.playing /\ page.budget = 0) ~> playbackEnded

\* The playback was paused and started again, the last input of the session,
\* and runs with one timeout pending.
PlaybackRunsWitness ==
  /\ page.playing
  /\ page.budget = 0
  /\ page.playTimer = 1
  /\ page.stepIndex = 2
  /\ Len(page.solution.moves) = MaxMoves

\* ============================================ the chain finder page, C37

\* C37: the answer to a poll of an earlier search never stops the polling of,
\* enables the form during, or overwrites the result area of a later search
\* that is still going on: only answers of the current job are acted upon,
\* also when the poll was in flight while its job's terminal answer was handled.
StaleAnswerIgnored ==
  [][\A x \in finder.fetches :
       (/\ x.kind = "poll"
        /\ x \notin finder'.fetches
        /\ x.search < finder.searches
        /\ searching(finder, finder.searches)) =>
         /\ finder'.interval = finder.interval
         /\ finder'.pollTimer = finder.pollTimer
         /\ finder'.submitBtn = finder.submitBtn
         /\ finder'.startInput = finder.startInput
         /\ finder'.endInput = finder.endInput
         /\ finder'.resultDiv = finder.resultDiv]_vars

\* ------------------------------------------------------ the editor's sizes
\* The largest number typed into a size input while the sizes are exercised.
LargeSizeInput == 13

\* The editor plan's largest width and height.
PlanMaxSize == 12

SizeInit ==
  /\ SolverIdle
  /\ \E b \in BOOLEAN :
       page = [PageIdle EXCEPT !.solveBtn = b, !.sizes = MinSizeInput..LargeSizeInput]
  /\ finder = Null
  /\ chain = Null

\* Create mode with any sizes typed: mode switches and New Grid.
SizeNext == SwitchMode \/ NewGrid

SizeSpec == SizeInit /\ [][SizeNext]_vars

\* C38: the grid New Grid creates has a width and a height between 4 and 12,
\* whatever numbers are entered, every border cell a wall and every interior
\* cell empty floor.
NewGridWithinPlan ==
  (page # Null /\ page.editorGrid # Null) =>
    LET grid == page.editorGrid
        h == Len(grid)
        w == Len(grid[1])
    IN /\ h \in MinGridSize..PlanMaxSize
       /\ w \in MinGridSize..PlanMaxSize
       /\ \A r \in 1..h : \A c \in 1..w :
            grid[r][c] = [base |-> IF r = 1 \/ r = h \/ c = 1 \/ c = w
                                     THEN "wall" ELSE "floor",
                          entity |-> "none"]

====
